---------------------------- MODULE Spec2Model ----------------------------
(***************************************************************************)
(* The license-enforcement agent (killer): the main verification loop of   *)
(* src/main.rs, the Health Channel of src/utils/health_monitor.rs, the     *)
(* Verification Client's result handling of src/verification/network.rs    *)
(* and the Kill Engine of src/security/kill_parent.rs, as a state machine. *)
(***************************************************************************)
EXTENDS Integers, Sequences, FiniteSets

(***************************************************************************)
(* Bounds of the model.                                                    *)
(***************************************************************************)
\* at most this many calls of verify_license are explored
MaxChecks == 3

(***************************************************************************)
(* Option<T>: None is the empty set, Some(v) the singleton.                *)
(***************************************************************************)
None == {}
Some(v) == {v}
Option(S) == {None} \cup {Some(v) : v \in S}
Unwrap(o) == CHOOSE v \in o : TRUE

(***************************************************************************)
(* config/schema.rs                                                        *)
(***************************************************************************)
KillMethod == {"Stop", "Delete", "Shred"}

\* values of check_interval_ms (u64, milliseconds) the model draws from
Intervals == {0, 1000, 5000}

Upper == <<"A","B","C","D","E","F","G","H","I","J","K","L","M",
           "N","O","P","Q","R","S","T","U","V","W","X","Y","Z">>
Lower == <<"a","b","c","d","e","f","g","h","i","j","k","l","m",
           "n","o","p","q","r","s","t","u","v","w","x","y","z">>

\* str::to_lowercase on one ASCII character
to_lowercase_char(c) ==
    IF \E i \in 1..Len(Upper) : Upper[i] = c
    THEN Lower[CHOOSE i \in 1..Len(Upper) : Upper[i] = c]
    ELSE c

\* str::to_lowercase; a string is its sequence of characters
to_lowercase(s) == [i \in 1..Len(s) |-> to_lowercase_char(s[i])]

\* KillMethod::from_str
from_str(s) ==
    LET l == to_lowercase(s) IN
    IF l = <<"s","t","o","p">> THEN Some("Stop")
    ELSE IF l = <<"d","e","l","e","t","e">> THEN Some("Delete")
    ELSE IF l = <<"s","h","r","e","d">> THEN Some("Shred")
    ELSE None

\* the kill_method strings a server response may carry
KillStrings ==
    { <<"S","t","o","p">>, <<"D","E","L","E","T","E">>, <<"w","i","p","e">> }

\* the static configuration the loop reads (Config.check_interval_ms, Config.kill_method)
Configs == [check_interval_ms : Intervals, kill_method : KillMethod]

(***************************************************************************)
(* verification/network.rs: what verify_license makes of the server's      *)
(* reply.                                                                  *)
(***************************************************************************)
\* VerifyResponse, the fields main reads
VerifyResponse ==
    [authorized : BOOLEAN,
     check_interval_ms : Option(Intervals),
     kill_method : Option(KillStrings)]

NoBody == [authorized |-> FALSE, check_interval_ms |-> None, kill_method |-> None]

\* what the transport hands back: a send() failure, or a status and a body
\* that parses as VerifyResponse or does not
Replies ==
    {[transport_ok |-> FALSE, status |-> 0, parse_ok |-> FALSE, body |-> NoBody]}
    \cup {[transport_ok |-> TRUE, status |-> 500, parse_ok |-> FALSE, body |-> NoBody]}
    \cup {[transport_ok |-> TRUE, status |-> 200, parse_ok |-> FALSE, body |-> NoBody]}
    \cup {[transport_ok |-> TRUE, status |-> 200, parse_ok |-> TRUE, body |-> b] :
             b \in VerifyResponse}

Ok(r) == [ok |-> TRUE, response |-> r]
Err == [ok |-> FALSE, response |-> NoBody]

\* faulty variant: a transport failure counts as a denial
verify_license_FailureDenies(reply, grace_period) ==
    IF ~reply.transport_ok \/ reply.status # 200
    THEN Ok([authorized |-> FALSE, check_interval_ms |-> None, kill_method |-> None])
    ELSE IF ~reply.parse_ok THEN Err ELSE Ok(reply.body)

\* faulty variant: a status other than 200 is an error
verify_license_StatusIsError(reply, grace_period) ==
    IF ~reply.transport_ok \/ reply.status # 200 \/ ~reply.parse_ok
    THEN Err
    ELSE Ok(reply.body)

\* verify_license, from the reply on
verify_license(reply, grace_period) ==
    IF ~reply.transport_ok
    THEN IF grace_period > 0
         THEN Ok([authorized |-> TRUE, check_interval_ms |-> None, kill_method |-> None])
         ELSE Err
    ELSE IF reply.status # 200
    THEN Ok([authorized |-> FALSE, check_interval_ms |-> None, kill_method |-> None])
    ELSE IF ~reply.parse_ok
    THEN Err
    ELSE Ok(reply.body)

(***************************************************************************)
(* utils/health_monitor.rs                                                 *)
(***************************************************************************)
\* HealthStatus as the supervisor creates it: zeroed
ZeroStatus ==
    [last_success |-> 0, consecutive_failures |-> 0, is_alive |-> 0,
     should_kill_base |-> 0, parent_requests_kill |-> 0]

\* the largest i32, the type of consecutive_failures
MaxI32 == 2147483647

\* n + 1 in i32 arithmetic as a release build does it: past the largest value
\* the result wraps around to the smallest
WrapI32(n) == IF n = MaxI32 THEN (-MaxI32) - 1 ELSE n + 1

\* HealthMonitor::update
update(s, success, now) ==
    IF success
    THEN [s EXCEPT !.consecutive_failures = 0, !.last_success = now, !.is_alive = 1]
    ELSE [s EXCEPT !.consecutive_failures = WrapI32(@), !.is_alive = 1]

\* HealthMonitor::request_kill_base
request_kill_base(s) == [s EXCEPT !.should_kill_base = 1]

\* faulty variant: the heartbeat also clears the parent's kill request
heartbeat_ClearsRequest(s) == [s EXCEPT !.is_alive = 1, !.parent_requests_kill = 0]

\* HealthMonitor::heartbeat
heartbeat(s) == [s EXCEPT !.is_alive = 1]

\* HealthMonitor::is_kill_requested
is_kill_requested(s) == s.parent_requests_kill = 1

(***************************************************************************)
(* security/kill_parent.rs: the Kill Engine.  A run of execute_kill is the *)
(* sequence of system operations it attempts, each with its outcome, and   *)
(* whether it returns or ends the process itself with exit(1).             *)
(***************************************************************************)
\* stop_parent: grace wait after SIGTERM, milliseconds
GraceMs == 100
\* delete_parent / shred_parent: settle delay before touching the file
SettleMs == 200
\* shred_parent: size of the overwrite buffer
ChunkSize == 8192
\* faulty variant: the second and the third pattern change places
Patterns_Swapped == <<0, 170, 255>>

\* shred_parent: the overwrite patterns 0x00, 0xFF, 0xAA
Patterns == <<0, 255, 170>>

\* sizes of the target binary the model draws from
FileSizes == {0, 10000}

\* the file operations that may fail, by overwrite pass (0: outside the passes)
IoFaults ==
    {[op |-> o, pass |-> 0] : o \in {"none", "open", "metadata", "remove_file"}}
    \cup {[op |-> o, pass |-> p] : o \in {"seek", "write", "sync"}, p \in 1..3}

\* what the operating system answers during one run of execute_kill:
\*   ppid_ok   get_parent_pid returns Some (always on unix)
\*   path_ok   get_parent_binary_path returns Some
\*   stop      windows: whether OpenProcess / TerminateProcess succeed
\*   alive     unix: /proc/<ppid> still exists after the grace wait
\*   io        the first file operation that fails
KillEnvs ==
    {e \in [platform : {"unix", "windows"}, ppid_ok : BOOLEAN, path_ok : BOOLEAN,
            stop : {"ok", "open_failed", "terminate_failed"}, alive : BOOLEAN,
            io : IoFaults, file_size : FileSizes] :
        /\ e.platform = "unix" => (e.ppid_ok /\ e.stop = "ok")
        /\ e.platform = "windows" => ~e.alive}

\* one system operation: its name, its argument (a delay in milliseconds, an
\* overwrite pattern), whether it succeeded, and the bytes it wrote
Ev(op, arg, ok) == [op |-> op, arg |-> arg, ok |-> ok, len |-> 0]

\* file.write_all(&buffer[..write_size])
EvWrite(pattern, write_size, ok) ==
    [op |-> "write", arg |-> pattern, ok |-> ok, len |-> write_size]

\* faulty variant: on unix the parent is killed outright, without SIGTERM
stop_parent_Forced(env) ==
    IF env.platform = "unix"
    THEN [ok |-> TRUE, trace |-> <<Ev("SIGKILL", 0, TRUE)>>]
    ELSE [ok |-> env.stop = "ok",
          trace |-> <<Ev("OpenProcess", 0, env.stop # "open_failed")>>
                    \o (IF env.stop = "open_failed" THEN <<>>
                        ELSE <<Ev("TerminateProcess", 0, env.stop = "ok")>>)]

\* stop_parent
stop_parent(env) ==
    IF env.platform = "unix"
    THEN [ok |-> TRUE,
          trace |-> <<Ev("SIGTERM", 0, TRUE), Ev("sleep", GraceMs, TRUE),
                      Ev("check_alive", 0, env.alive)>>
                    \o (IF env.alive THEN <<Ev("SIGKILL", 0, TRUE)>> ELSE <<>>)]
    ELSE IF env.stop = "open_failed"
    THEN [ok |-> FALSE, trace |-> <<Ev("OpenProcess", 0, FALSE)>>]
    ELSE [ok |-> env.stop = "ok",
          trace |-> <<Ev("OpenProcess", 0, TRUE),
                      Ev("TerminateProcess", 0, env.stop = "ok")>>]

\* fs::remove_file(path) and what delete_parent / shred_parent return after it
remove_file(env) ==
    LET ok == env.io.op # "remove_file" IN
    [ok |-> ok, trace |-> <<Ev("remove_file", 0, ok)>>]

\* delete_parent
delete_parent(env) ==
    LET s == stop_parent(env) IN
    IF ~s.ok THEN s
    ELSE LET r == remove_file(env) IN
         [ok |-> r.ok, trace |-> s.trace \o <<Ev("sleep", SettleMs, TRUE)>> \o r.trace]

Min(a, b) == IF a < b THEN a ELSE b

RECURSIVE write_chunks(_, _)
\* shred_parent: the while loop writing one pass, chunk by chunk
write_chunks(remaining, pattern) ==
    IF remaining = 0 THEN <<>>
    ELSE LET write_size == Min(remaining, ChunkSize) IN
         <<EvWrite(pattern, write_size, TRUE)>>
         \o write_chunks(remaining - write_size, pattern)

RECURSIVE overwrite_passes(_, _)
\* shred_parent: the for loop over the patterns, from pass p on
overwrite_passes(p, env) ==
    IF p > Len(Patterns) THEN [ok |-> TRUE, trace |-> <<>>]
    ELSE IF env.io = [op |-> "seek", pass |-> p]
    THEN [ok |-> FALSE, trace |-> <<Ev("seek", 0, FALSE)>>]
    ELSE IF env.io = [op |-> "write", pass |-> p] /\ env.file_size > 0
    THEN [ok |-> FALSE,
          trace |-> <<Ev("seek", 0, TRUE),
                      EvWrite(Patterns[p], Min(env.file_size, ChunkSize), FALSE)>>]
    ELSE LET done == <<Ev("seek", 0, TRUE)>> \o write_chunks(env.file_size, Patterns[p]) IN
         IF env.io = [op |-> "sync", pass |-> p]
         THEN [ok |-> FALSE, trace |-> done \o <<Ev("sync_all", 0, FALSE)>>]
         ELSE LET rest == overwrite_passes(p + 1, env) IN
              [ok |-> rest.ok,
               trace |-> done \o <<Ev("sync_all", 0, TRUE)>> \o rest.trace]

\* shred_parent
shred_parent(env) ==
    LET s == stop_parent(env) IN
    IF ~s.ok THEN s
    ELSE LET t1 == s.trace \o <<Ev("sleep", SettleMs, TRUE)>> IN
         IF env.io.op = "open"
         THEN [ok |-> FALSE, trace |-> t1 \o <<Ev("open", 0, FALSE)>>]
         ELSE IF env.io.op = "metadata"
         THEN [ok |-> FALSE,
               trace |-> t1 \o <<Ev("open", 0, TRUE), Ev("metadata", 0, FALSE)>>]
         ELSE LET t2 == t1 \o <<Ev("open", 0, TRUE), Ev("metadata", 0, TRUE)>>
                  w == overwrite_passes(1, env)
              IN IF ~w.ok THEN [ok |-> FALSE, trace |-> t2 \o w.trace]
                 ELSE LET r == remove_file(env) IN
                      [ok |-> r.ok, trace |-> t2 \o w.trace \o r.trace]

\* execute_kill: exited is TRUE when execute_kill itself calls exit(1),
\* FALSE when it returns to its caller
execute_kill(kill_method, env) ==
    IF ~env.ppid_ok
    THEN [exited |-> TRUE, trace |-> <<Ev("get_parent_pid", 0, FALSE)>>]
    ELSE IF ~env.path_ok
    THEN [exited |-> TRUE,
          trace |-> <<Ev("get_parent_pid", 0, TRUE), Ev("get_parent_binary_path", 0, FALSE)>>
                    \o stop_parent(env).trace]
    ELSE LET result == CASE kill_method = "Stop" -> stop_parent(env)
                         [] kill_method = "Delete" -> delete_parent(env)
                         [] kill_method = "Shred" -> shred_parent(env)
         IN [exited |-> ~result.ok,
             trace |-> <<Ev("get_parent_pid", 0, TRUE), Ev("get_parent_binary_path", 0, TRUE)>>
                       \o result.trace]

(***************************************************************************)
(* main.rs: the verification loop.                                         *)
(***************************************************************************)
VARIABLES
    pc,                      \* where main is: "loop", "kill_check", "verify", "match",
                             \* "sleep", "kill_requested", "kill_denied", "exited"
    config,                  \* the loaded Config
    health_monitor,          \* TRUE: HealthMonitor::new() returned Some
    shm,                     \* the HealthStatus record in shared memory
    first_check,             \* main's local first_check
    runtime_check_interval,  \* main's local runtime_check_interval
    runtime_kill_method,     \* main's local runtime_kill_method
    result,                  \* what verify_license returned to the match
    clock,                   \* SystemTime::now(), seconds
    calls,                   \* history: one entry per call of verify_license
    sleeps,                  \* history: the argument of every thread::sleep of the loop
    iterLog,                 \* history: what the current iteration did, in order
    killCalls,               \* history: the argument of every call of execute_kill
    killLog,                 \* history: what the call of execute_kill did
    exit_code,               \* the process's exit code: None while it runs
    routine,                 \* the entry point or routine that is running
    os,                      \* what the operating system answers to the routine
    target,                  \* how the target process reacts to the signals
    syscalls,                \* history: the system operations of the routine, in order
    bg,                      \* where the background thread of execute_async is
    twin                     \* the loop run without a Health Channel on the same results

vars == <<pc, config, health_monitor, shm, first_check, runtime_check_interval,
          runtime_kill_method, result, clock, calls, sleeps, iterLog, killCalls,
          killLog, exit_code, routine, os, target, syscalls, bg, twin>>

\* the variables main's loop does not touch
auxVars == <<routine, os, target, syscalls, bg, twin>>

\* no operating-system answers are recorded, no target is observed
NoEnv == [platform |-> "none"]
NoTarget == [observed |-> FALSE]
\* no second loop is run
NoTwin == [pc |-> "none"]

\* result outside the match: no response is held
NoResult == Err

\* main.rs 49-59: the state the loop starts in
Init ==
    /\ pc = "loop"
    /\ config \in Configs
    /\ health_monitor \in BOOLEAN
    /\ shm = ZeroStatus
    /\ first_check = TRUE
    /\ runtime_check_interval = config.check_interval_ms
    /\ runtime_kill_method = config.kill_method
    /\ result = NoResult
    /\ clock = 1
    /\ calls = <<>>
    /\ sleeps = <<>>
    /\ iterLog = <<>>
    /\ killCalls = <<>>
    /\ killLog = <<>>
    /\ exit_code = None
    /\ routine = "main"
    /\ os = NoEnv
    /\ target = NoTarget
    /\ syscalls = <<>>
    /\ bg = "none"
    /\ twin = NoTwin

\* the supervisor, the other party of the Health Channel, asks the agent to
\* kill: the only field it writes that the agent reads
SupervisorRequestsKill ==
    /\ health_monitor
    /\ pc # "exited"
    /\ shm.parent_requests_kill = 0
    /\ shm' = [shm EXCEPT !.parent_requests_kill = 1]
    /\ UNCHANGED <<pc, config, health_monitor, first_check, runtime_check_interval,
                   runtime_kill_method, result, clock, calls, sleeps, iterLog,
                   killCalls, killLog, exit_code>>
    /\ UNCHANGED auxVars

\* faulty variant: the loop goes from the heartbeat straight to the verification
Heartbeat_NoKillCheck ==
    /\ pc = "loop"
    /\ health_monitor
    /\ shm' = heartbeat(shm)
    /\ iterLog' = <<"heartbeat">>
    /\ pc' = "verify"
    /\ UNCHANGED <<config, health_monitor, first_check, runtime_check_interval,
                   runtime_kill_method, result, clock, calls, sleeps, killCalls,
                   killLog, exit_code>>
    /\ UNCHANGED auxVars

\* main.rs 61-67: top of the loop with a Health Channel: heartbeat
Heartbeat ==
    /\ pc = "loop"
    /\ health_monitor
    /\ shm' = heartbeat(shm)
    /\ iterLog' = <<"heartbeat">>
    /\ pc' = "kill_check"
    /\ UNCHANGED <<config, health_monitor, first_check, runtime_check_interval,
                   runtime_kill_method, result, clock, calls, sleeps, killCalls,
                   killLog, exit_code>>
    /\ UNCHANGED auxVars

\* main.rs 65: top of the loop without a Health Channel
NoHealthMonitor ==
    /\ pc = "loop"
    /\ ~health_monitor
    /\ iterLog' = <<>>
    /\ pc' = "verify"
    /\ UNCHANGED <<config, health_monitor, shm, first_check, runtime_check_interval,
                   runtime_kill_method, result, clock, calls, sleeps, killCalls,
                   killLog, exit_code>>
    /\ UNCHANGED auxVars

\* faulty variant: the kill request is taken as made whatever the flag says
KillCheckTarget_Always(requested) == "kill_requested"

\* faulty variant: the kill request is never acted on
KillCheckTarget_Never(requested) == "verify"

\* main.rs 69: the branch on is_kill_requested
KillCheckTarget(requested) == IF requested THEN "kill_requested" ELSE "verify"

\* main.rs 68-75: the kill-request check
KillCheck ==
    /\ pc = "kill_check"
    /\ iterLog' = Append(iterLog, "is_kill_requested")
    /\ pc' = KillCheckTarget(is_kill_requested(shm))
    /\ UNCHANGED <<config, health_monitor, shm, first_check, runtime_check_interval,
                   runtime_kill_method, result, clock, calls, sleeps, killCalls,
                   killLog, exit_code>>
    /\ UNCHANGED auxVars

\* the history entry of one call of verify_license: the first_check it was
\* passed, its outcome and, for an authorized response (the only one whose
\* fields main reads), the check_interval_ms it carried
CallEntry(first, r) ==
    [first_check |-> first,
     outcome |-> IF ~r.ok THEN "error"
                 ELSE IF r.response.authorized THEN "authorized" ELSE "denied",
     check_interval_ms |-> IF r.ok /\ r.response.authorized
                           THEN r.response.check_interval_ms ELSE None]

\* main.rs 77-83: the call of verify_license (grace_period is 0)
Verify ==
    /\ pc = "verify"
    /\ Len(calls) < MaxChecks
    /\ \E reply \in Replies :
          /\ result' = verify_license(reply, 0)
          /\ calls' = Append(calls, CallEntry(first_check, result'))
    /\ iterLog' = Append(iterLog, "verify_license")
    /\ pc' = "match"
    /\ UNCHANGED <<config, health_monitor, shm, first_check, runtime_check_interval,
                   runtime_kill_method, clock, sleeps, killCalls, killLog, exit_code>>
    /\ UNCHANGED auxVars

\* faulty variant: the check_interval_ms override is dropped
patch_check_interval_Dropped(current, response) == current

\* faulty variant: the interval override is skipped when the response carries
\* a kill_method that does not parse
patch_check_interval_WithMethod(current, response) ==
    IF response.check_interval_ms # None
       /\ (response.kill_method # None => from_str(Unwrap(response.kill_method)) # None)
    THEN Unwrap(response.check_interval_ms)
    ELSE current

\* main.rs 88-93: the check_interval_ms override
patch_check_interval(current, response) ==
    IF response.check_interval_ms # None
       /\ Unwrap(response.check_interval_ms) # current
    THEN Unwrap(response.check_interval_ms)
    ELSE current

\* faulty variant: the kill_method override is dropped
patch_kill_method_Dropped(current, response) == current

\* main.rs 94-103: the kill_method override
patch_kill_method(current, response) ==
    IF response.kill_method # None
       /\ from_str(Unwrap(response.kill_method)) # None
       /\ Unwrap(from_str(Unwrap(response.kill_method))) # current
    THEN Unwrap(from_str(Unwrap(response.kill_method)))
    ELSE current

\* faulty variant: every arm also asks the supervisor to kill the base
HealthCalls_KillBase(ops) ==
    IF health_monitor THEN ops \o <<"request_kill_base">> ELSE <<>>

\* main.rs 105-108, 123-127, 139-142: the Health Channel calls of an arm,
\* made only when the monitor is there
HealthCalls(ops) == IF health_monitor THEN ops ELSE <<>>

RECURSIVE ApplyHealthCalls(_, _, _)
\* the record after the Health Channel calls ops, made in order
ApplyHealthCalls(s, ops, now) ==
    IF ops = <<>> THEN s
    ELSE LET s1 == CASE Head(ops) = "update_true" -> update(s, TRUE, now)
                     [] Head(ops) = "update_false" -> update(s, FALSE, now)
                     [] Head(ops) = "request_kill_base" -> request_kill_base(s)
                     [] Head(ops) = "heartbeat" -> heartbeat(s)
         IN ApplyHealthCalls(s1, Tail(ops), now)

\* faulty variant: the Err arm forgets first_check = false
NextFirstCheck_ErrorKeeps(outcome) == IF outcome = "error" THEN first_check ELSE FALSE

\* main.rs 115, 150: the value of first_check after an arm that goes on
NextFirstCheck(outcome) == FALSE

\* how an arm ends: pc next is "exited" after exit(code), "sleep" when the arm
\* sets first_check and calls thread::sleep(ms)
ArmEnd(next, code, ms, outcome, log) ==
    /\ pc' = next
    /\ exit_code' = IF next = "exited" THEN Some(code) ELSE exit_code
    /\ first_check' = IF next = "sleep" THEN NextFirstCheck(outcome) ELSE first_check
    /\ sleeps' = IF next = "sleep" THEN Append(sleeps, ms) ELSE sleeps
    /\ iterLog' = log \o (IF next = "exited" THEN <<"exit">>
                          ELSE IF next = "sleep" THEN <<"sleep">> ELSE <<>>)

\* faulty variant: an authorized response never ends the loop
AuthorizedNext_AlwaysSleep(interval) == "sleep"

\* faulty variant: an authorized response always ends the loop
AuthorizedNext_AlwaysExit(interval) == "exited"

\* main.rs 110-118: exit or go on after an authorized response
AuthorizedNext(interval) == IF interval = 0 THEN "exited" ELSE "sleep"

\* main.rs 84-119: the arm  Ok(response) if response.authorized
AuthorizedArm ==
    /\ pc = "match"
    /\ result.ok /\ result.response.authorized
    /\ runtime_check_interval' =
          patch_check_interval(runtime_check_interval, result.response)
    /\ runtime_kill_method' = patch_kill_method(runtime_kill_method, result.response)
    /\ shm' = ApplyHealthCalls(shm, HealthCalls(<<"update_true">>), clock)
    /\ ArmEnd(AuthorizedNext(runtime_check_interval'), 0, runtime_check_interval',
              "authorized", iterLog \o HealthCalls(<<"update_true">>))
    /\ result' = NoResult
    /\ UNCHANGED <<config, health_monitor, clock, calls, killCalls, killLog>>
    /\ UNCHANGED auxVars

\* main.rs 123-127: what the denial arm does with the Health Channel, in order
DeniedHealthCalls == <<"update_false", "request_kill_base">>

\* main.rs 120-131: the arm  Ok(response)  of a denial, up to the call of execute_kill
DeniedArm ==
    /\ pc = "match"
    /\ result.ok /\ ~result.response.authorized
    /\ shm' = ApplyHealthCalls(shm, HealthCalls(DeniedHealthCalls), clock)
    /\ iterLog' = iterLog \o HealthCalls(DeniedHealthCalls)
    /\ pc' = "kill_denied"
    /\ result' = NoResult
    /\ UNCHANGED <<config, health_monitor, first_check, runtime_check_interval,
                   runtime_kill_method, clock, calls, sleeps, killCalls,
                   killLog, exit_code>>
    /\ UNCHANGED auxVars

\* faulty variant: a verification error is handled like a denial
ErrorNext_Kill(interval) == "kill_denied"

\* faulty variant: a verification error always ends the process
ErrorNext_AlwaysExit(interval) == "exited"

\* main.rs 146-153: exit or go on after a verification error
ErrorNext(interval) == IF interval = 0 THEN "exited" ELSE "sleep"

\* main.rs 136-154: the arm  Err(e)
ErrorArm ==
    /\ pc = "match"
    /\ ~result.ok
    /\ shm' = ApplyHealthCalls(shm, HealthCalls(<<"update_false">>), clock)
    /\ ArmEnd(ErrorNext(runtime_check_interval), 1, runtime_check_interval,
              "error", iterLog \o HealthCalls(<<"update_false">>))
    /\ result' = NoResult
    /\ UNCHANGED <<config, health_monitor, runtime_check_interval, runtime_kill_method,
                   clock, calls, killCalls, killLog>>
    /\ UNCHANGED auxVars

\* the end of thread::sleep: the arm is over, the loop starts again
WakeUp ==
    /\ pc = "sleep"
    /\ pc' = "loop"
    /\ clock' = clock + (runtime_check_interval \div 1000)
    /\ UNCHANGED <<config, health_monitor, shm, first_check, runtime_check_interval,
                   runtime_kill_method, result, calls, sleeps, iterLog, killCalls, killLog,
                   exit_code>>
    /\ UNCHANGED auxVars

\* faulty variant: exit(0) at both call sites
ExitAfterKill_Zero(site) == 0

\* faulty variant: exit(1) at both call sites
ExitAfterKill_One(site) == 1

\* main.rs 73, 134: the exit code after execute_kill has returned
ExitAfterKill(site) == IF site = "kill_requested" THEN 0 ELSE 1

\* a call of execute_kill from main and the exit that ends the process
Kill(site) ==
    /\ pc = site
    /\ \E env \in KillEnvs :
          LET k == execute_kill(runtime_kill_method, env) IN
          /\ killLog' = k.trace
          /\ exit_code' = Some(IF k.exited THEN 1 ELSE ExitAfterKill(site))
    /\ killCalls' = Append(killCalls, runtime_kill_method)
    /\ iterLog' = iterLog \o <<"execute_kill", "exit">>
    /\ pc' = "exited"
    /\ UNCHANGED <<config, health_monitor, shm, first_check, runtime_check_interval,
                   runtime_kill_method, result, clock, calls, sleeps>>
    /\ UNCHANGED auxVars

\* main.rs 70-73: the parent asked for the kill
KillOnRequest == Kill("kill_requested")

\* main.rs 129-134: the server denied
KillOnDenial == Kill("kill_denied")

Next ==
    \/ SupervisorRequestsKill
    \/ Heartbeat
    \/ NoHealthMonitor
    \/ KillCheck
    \/ Verify
    \/ AuthorizedArm
    \/ DeniedArm
    \/ ErrorArm
    \/ WakeUp
    \/ KillOnRequest
    \/ KillOnDenial

Spec == Init /\ [][Next]_vars

(***************************************************************************)
(* Properties of the main loop.                                            *)
(***************************************************************************)
Last(q) == q[Len(q)]
Has(log, e) == \E i \in 1..Len(log) : log[i] = e
Pos(log, e) == CHOOSE i \in 1..Len(log) : log[i] = e /\ \A j \in 1..(i - 1) : log[j] # e
Count(log, e) == Cardinality({i \in 1..Len(log) : log[i] = e})

\* what the current iteration did after its call of verify_license
ArmLog == SubSeq(iterLog, Pos(iterLog, "verify_license") + 1, Len(iterLog))

\* the arm of the last call of verify_license has run, and no later iteration
\* has begun
ArmDone(outcome) ==
    /\ calls # <<>>
    /\ Last(calls).outcome = outcome
    /\ pc # "match"
    /\ Has(iterLog, "verify_license")

\* the log of an iteration that ends in the kill the parent asked for
RequestedKillLog == <<"heartbeat", "is_kill_requested", "execute_kill", "exit">>

\* C1: when verify_license returns an error, that iteration never calls
\* execute_kill: it records the failure in the Health Channel (when there is
\* one) and then exits with code 1 if the effective interval is 0, or sets the
\* sleep of the effective interval and retries if it is > 0.
C1_NetworkErrorNeverKills ==
    ArmDone("error") =>
        /\ ~Has(iterLog, "execute_kill")
        /\ killCalls = <<>>
        /\ pc \in {"exited", "sleep", "loop"}
        /\ ArmLog = HealthCalls(<<"update_false">>)
                    \o (IF runtime_check_interval = 0 THEN <<"exit">> ELSE <<"sleep">>)
        /\ health_monitor => shm.consecutive_failures >= 1
        /\ runtime_check_interval = 0 => pc = "exited" /\ exit_code = Some(1)
        /\ runtime_check_interval > 0 =>
              /\ exit_code = None
              /\ Last(sleeps) = runtime_check_interval

\* C1 witness: the second error in a row, in interval mode with a Health Channel
C1_Witness ==
    /\ ArmDone("error")
    /\ pc = "sleep"
    /\ health_monitor
    /\ shm.consecutive_failures = 2

\* C2: after a denial the controller calls update(false), request_kill_base
\* and execute_kill with the runtime kill method, in this order, the process
\* exits with a nonzero code, and the denial is the last verification.
C2_DenialKillsAndExits ==
    /\ \A i \in 1..(Len(calls) - 1) : calls[i].outcome # "denied"
    /\ ArmDone("denied") =>
          /\ pc \in {"kill_denied", "exited"}
          /\ health_monitor =>
                shm.should_kill_base = 1 /\ shm.consecutive_failures >= 1
          /\ pc = "kill_denied" =>
                ArmLog = HealthCalls(<<"update_false", "request_kill_base">>)
          /\ pc = "exited" =>
                /\ ArmLog = HealthCalls(<<"update_false", "request_kill_base">>)
                            \o <<"execute_kill", "exit">>
                /\ killCalls = <<runtime_kill_method>>
                /\ exit_code # None /\ exit_code # Some(0)

\* C2 witness: a denial with a Health Channel, execute_kill has returned
C2_Witness ==
    /\ ArmDone("denied")
    /\ pc = "exited"
    /\ health_monitor
    /\ Len(killLog) > 0
    /\ Last(killLog).ok
    /\ exit_code = Some(1)

\* C3 (as claimed): when the parent's kill request is seen, execute_kill is
\* called with no verification in that iteration, and the process then exits
\* with code 0 whatever execute_kill did.
C3_RequestedKillExitsZero ==
    /\ pc = "kill_requested" => ~Has(iterLog, "verify_license")
    /\ (pc = "exited" /\ iterLog = RequestedKillLog) => exit_code = Some(0)

\* C4 (as claimed): in every iteration the heartbeat and the kill-request
\* check precede the verification call, and a verification call precedes any
\* call of execute_kill.
C4_VerifyPrecedesEveryKill ==
    /\ (Has(iterLog, "verify_license") /\ health_monitor) =>
          /\ Has(iterLog, "heartbeat") /\ Has(iterLog, "is_kill_requested")
          /\ Pos(iterLog, "heartbeat") < Pos(iterLog, "verify_license")
          /\ Pos(iterLog, "is_kill_requested") < Pos(iterLog, "verify_license")
    /\ Has(iterLog, "execute_kill") =>
          /\ Has(iterLog, "verify_license")
          /\ Pos(iterLog, "verify_license") < Pos(iterLog, "execute_kill")

\* C4 (amended): in every iteration the heartbeat and the kill-request check
\* (made when there is a Health Channel) precede the one verification call;
\* the call of execute_kill made on a denial follows that verification call;
\* the call of execute_kill made on the parent's request follows the
\* kill-request check directly, in an iteration with no verification call.
C4_IterationOrder ==
    /\ Count(iterLog, "verify_license") <= 1
    /\ Count(iterLog, "execute_kill") <= 1
    /\ Has(iterLog, "verify_license") =>
          IF health_monitor
          THEN /\ Len(iterLog) >= 3
               /\ SubSeq(iterLog, 1, 3) = <<"heartbeat", "is_kill_requested", "verify_license">>
          ELSE iterLog[1] = "verify_license"
    /\ Has(iterLog, "execute_kill") =>
          \/ /\ Has(iterLog, "verify_license")
             /\ Pos(iterLog, "verify_license") < Pos(iterLog, "execute_kill")
             /\ Last(calls).outcome = "denied"
          \/ iterLog = RequestedKillLog

\* C4 witness: a denial iteration with a Health Channel, run to its exit
C4_Witness ==
    iterLog = <<"heartbeat", "is_kill_requested", "verify_license", "update_false",
                "request_kill_base", "execute_kill", "exit">>

\* the first verification was authorized and its arm has run
FirstAuthorizedHandled ==
    /\ calls # <<>>
    /\ calls[1].outcome = "authorized"
    /\ ~(Len(calls) = 1 /\ pc = "match")

\* what single-check mode promises: exit 0 after one verification, no sleep
ExitedAfterOneCheck ==
    /\ pc = "exited"
    /\ exit_code = Some(0)
    /\ Len(calls) = 1
    /\ sleeps = <<>>
    /\ killCalls = <<>>

\* C5 (as claimed): configured with check_interval 0, the loop exits 0 after
\* exactly one verification, without a sleep, for every authorized response.
C5_SingleCheckAnyResponse ==
    (config.check_interval_ms = 0 /\ FirstAuthorizedHandled) => ExitedAfterOneCheck

\* C5 (amended): configured with check_interval 0, the loop exits 0 after
\* exactly one verification, without a sleep, for every authorized response
\* that carries no check_interval_ms or carries 0.
C5_SingleCheck ==
    (/\ config.check_interval_ms = 0
     /\ FirstAuthorizedHandled
     /\ calls[1].check_interval_ms \in {None, Some(0)}) => ExitedAfterOneCheck

\* C5 witness: single-check mode, an authorized response without override
C5_Witness ==
    /\ config.check_interval_ms = 0
    /\ FirstAuthorizedHandled
    /\ calls[1].check_interval_ms = None
    /\ pc = "exited"

\* the verifier answered error, error, authorized, as far as it was called
ErrErrAuth(n) ==
    /\ Len(calls) >= n
    /\ \A i \in 1..n : calls[i].outcome = <<"error", "error", "authorized">>[i]

\* the third verification has been made and its arm has run
ThirdHandled == ErrErrAuth(3) /\ ~(Len(calls) = 3 /\ pc = "match")

\* C6 (as claimed): with check_interval > 0 and a verifier answering error,
\* error, authorized, the Kill Engine is never called and the process exits 0
\* after the third iteration.
C6_ExitsZeroAfterThird ==
    (config.check_interval_ms > 0 /\ ThirdHandled) =>
        /\ killCalls = <<>>
        /\ pc = "exited"
        /\ exit_code = Some(0)
        /\ Len(calls) = 3

\* C6 (amended): with check_interval > 0 and a verifier answering error,
\* error, authorized, the Kill Engine is called only on the parent's kill
\* request; the third iteration exits 0 only if its response carries
\* check_interval_ms = 0, and otherwise sleeps and the loop goes on.
C6_RetriesThenGoesOn ==
    (config.check_interval_ms > 0 /\ Len(calls) <= 3 /\ ErrErrAuth(Len(calls))) =>
        /\ killCalls # <<>> => iterLog = RequestedKillLog
        /\ (Len(calls) = 3 /\ pc # "match") =>
              IF calls[3].check_interval_ms = Some(0)
              THEN /\ pc = "exited" /\ exit_code = Some(0)
                   /\ Len(sleeps) = 2 /\ killCalls = <<>>
              ELSE /\ Len(sleeps) = 3
                   /\ Last(sleeps) > 0
                   /\ exit_code # Some(0) \/ killCalls # <<>>
                   /\ pc = "exited" => killCalls # <<>>

\* C6 witness: after error, error, authorized the loop sleeps
C6_Witness ==
    /\ config.check_interval_ms > 0
    /\ ThirdHandled
    /\ Len(calls) = 3
    /\ pc = "sleep"
    /\ killCalls = <<>>

RECURSIVE EffectiveInterval(_)
\* the interval in force after the first i verifications: the last
\* check_interval_ms an authorized response carried, else the configured one
EffectiveInterval(i) ==
    IF i = 0 THEN config.check_interval_ms
    ELSE IF calls[i].check_interval_ms # None THEN Unwrap(calls[i].check_interval_ms)
    ELSE EffectiveInterval(i - 1)

\* C7: the sleep that follows the i-th verification lasts the interval in
\* force after that verification: the value the latest authorized response
\* carried, from the sleep right after that response on.
C7_SleepUsesLatestOverride ==
    /\ Len(sleeps) <= Len(calls)
    /\ \A i \in 1..Len(sleeps) : sleeps[i] = EffectiveInterval(i)

\* C7 witness: interval 1000, then a response carrying 5000, then an error
C7_Witness ==
    /\ sleeps = <<1000, 5000, 5000>>
    /\ calls[1].check_interval_ms = None
    /\ calls[2].check_interval_ms = Some(5000)
    /\ calls[3].outcome = "error"

\* the kill method a response carries, parsed
CarriedKillMethod(response) ==
    IF response.kill_method = None THEN None ELSE from_str(Unwrap(response.kill_method))

\* RuntimePolicy starts as the static configuration
PolicySeeded ==
    /\ runtime_check_interval = config.check_interval_ms
    /\ runtime_kill_method = config.kill_method

\* the policy after the arm is the policy before it, overwritten with what
\* the response carries
PolicyOverwritten(response) ==
    /\ runtime_check_interval' =
          IF response.check_interval_ms # None
          THEN Unwrap(response.check_interval_ms) ELSE runtime_check_interval
    /\ runtime_kill_method' =
          IF CarriedKillMethod(response) # None
          THEN Unwrap(CarriedKillMethod(response)) ELSE runtime_kill_method

\* a step of the arm that handles the result of verify_license
ArmStep == pc = "match" /\ pc' # "match"

\* C8 (as claimed): RuntimePolicy is seeded from the configuration and every
\* outcome that carries an override, authorized or not, overwrites it.
C8_EveryOutcomeOverwrites ==
    [][(ArmStep /\ result.ok) => PolicyOverwritten(result.response)]_vars

\* C8 (amended): RuntimePolicy is seeded from the configuration; an authorized
\* outcome overwrites each field it carries a (valid) override for, within its
\* arm, before the exit test, the sleep and any later kill; a denial or an
\* error leaves the policy as it was, and nothing else changes it.
C8_AuthorizedOutcomeOverwrites ==
    /\ PolicySeeded
    /\ [][IF ArmStep /\ result.ok /\ result.response.authorized
           THEN PolicyOverwritten(result.response)
           ELSE UNCHANGED <<runtime_check_interval, runtime_kill_method>>]_vars

\* C8 witness: both fields overwritten by an authorized response
C8_Witness ==
    /\ config.check_interval_ms = 1000 /\ runtime_check_interval = 5000
    /\ config.kill_method = "Shred" /\ runtime_kill_method = "Stop"
    /\ Len(calls) = 1
    /\ pc = "sleep"

\* C9: while the effective interval is > 0 the process ends only through the
\* kill on a denial or on the parent's request, never in the authorized or the
\* error arm; and the interval changes only to the value an authorized
\* response carries.
C9_IntervalModeEndsOnlyByKill ==
    [][/\ (pc # "exited" /\ pc' = "exited" /\ runtime_check_interval' > 0) =>
             \/ pc = "kill_denied" /\ Last(calls).outcome = "denied"
             \/ pc = "kill_requested" /\ is_kill_requested(shm)
       /\ runtime_check_interval' # runtime_check_interval =>
             /\ pc = "match" /\ result.ok /\ result.response.authorized
             /\ result.response.check_interval_ms = Some(runtime_check_interval')]_vars

\* C9 witness: interval mode went through an authorized response and an error
\* and ended on a denial
C9_Witness ==
    /\ Len(calls) = 3
    /\ calls[1].outcome = "authorized"
    /\ calls[2].outcome = "error"
    /\ calls[3].outcome = "denied"
    /\ runtime_check_interval > 0
    /\ pc = "exited"

\* C10: first_check is true in the first call of verify_license and false in
\* every later call.
C10_FirstCheckOnlyFirst ==
    \A i \in 1..Len(calls) : calls[i].first_check = (i = 1)

\* C10 witness: three calls, the first ended in an error
C10_Witness ==
    /\ Len(calls) = 3
    /\ calls[1].outcome = "error"
    /\ calls[2].outcome = "authorized"
    /\ ~calls[3].first_check

\* execute_kill ended the process itself: one of its operations failed
KillFailed == \E i \in 1..Len(killLog) : killLog[i].op # "check_alive" /\ ~killLog[i].ok

\* the process ended in the arm of an authorized response, in single-check mode
ExitedAuthorized ==
    /\ pc = "exited"
    /\ ArmDone("authorized")
    /\ killCalls = <<>>
    /\ runtime_check_interval = 0

\* the process ended in the kill the parent asked for
ExitedOnRequest == pc = "exited" /\ iterLog = RequestedKillLog

\* C11 (as claimed): the main loop exits with code 0 only when it was
\* authorized to proceed, and with a nonzero code after a denial, after a
\* network error in single-check mode, and after every call of execute_kill.
C11_ZeroOnlyWhenAuthorized ==
    exit_code # None =>
        /\ exit_code = Some(0) => ExitedAuthorized
        /\ killCalls # <<>> => exit_code # Some(0)
        /\ (ArmDone("denied") \/ ArmDone("error")) => exit_code # Some(0)

\* C11 (amended): the main loop exits with code 0 in two cases only: it was
\* authorized in single-check mode, or the parent asked for the kill and
\* execute_kill returned.  It exits with code 1 after a denial, after a network
\* error in single-check mode, and whenever execute_kill failed.
C11_ExitCodeByPath ==
    /\ (exit_code = None) = (pc # "exited")
    /\ pc = "exited" =>
          /\ exit_code \in {Some(0), Some(1)}
          /\ (exit_code = Some(0)) =
                (ExitedAuthorized \/ (ExitedOnRequest /\ ~KillFailed))
          /\ (ArmDone("denied") \/ ArmDone("error")) => exit_code = Some(1)
          /\ (killCalls # <<>> /\ KillFailed) => exit_code = Some(1)

\* C11 witness: the parent asked for the kill, execute_kill shredded the
\* binary and returned, and the process exited with code 0
C11_Witness ==
    /\ ExitedOnRequest
    /\ killCalls = <<"Shred">>
    /\ ~KillFailed
    /\ Last(killLog).op = "remove_file"
    /\ exit_code = Some(0)

(***************************************************************************)
(* The routines of the Kill Engine, Process Control and Secure Deletion,   *)
(* each called once on its own with every answer the operating system can  *)
(* give.                                                                   *)
(***************************************************************************)
\* config/schema.rs 19-31, 70-72: the serde defaults
DefaultConfig == [check_interval_ms |-> 0, kill_method |-> "Shred"]

\* how the target reacts: whether it still runs once the grace wait after the
\* graceful signal is over, and whether it still runs at the end of the settle
\* delay when it was terminated by force.  /proc/<ppid> says nothing about it
\* where there is no /proc (macOS), and names a zombie or a recycled pid
\* elsewhere, so the answer of the liveness check is drawn independently.
Targets ==
    {t \in [observed : {TRUE}, running_after_term : BOOLEAN,
            running_after_kill : BOOLEAN] :
        t.running_after_kill => t.running_after_term}

\* the variables of main's loop that no routine touches
loopVars == <<config, health_monitor, shm, first_check, runtime_check_interval,
              result, clock, calls, sleeps, iterLog, twin>>

EngineInit ==
    /\ pc = "call"
    /\ config = DefaultConfig
    /\ health_monitor = FALSE
    /\ shm = ZeroStatus
    /\ first_check = TRUE
    /\ runtime_check_interval = config.check_interval_ms
    /\ runtime_kill_method = config.kill_method
    /\ result = NoResult
    /\ clock = 1
    /\ calls = <<>>
    /\ sleeps = <<>>
    /\ iterLog = <<>>
    /\ killCalls = <<>>
    /\ killLog = <<>>
    /\ exit_code = None
    /\ routine = "none"
    /\ os = NoEnv
    /\ target = NoTarget
    /\ syscalls = <<>>
    /\ bg = "none"
    /\ twin = NoTwin

\* one call of execute_kill(kill_method): it returns, or it ends the process
\* with exit(1)
RunExecuteKill ==
    /\ pc = "call"
    /\ \E kill_method \in KillMethod, e \in KillEnvs, t \in Targets :
          LET k == execute_kill(kill_method, e) IN
          /\ routine' = "execute_kill"
          /\ runtime_kill_method' = kill_method
          /\ killCalls' = <<kill_method>>
          /\ killLog' = k.trace
          /\ os' = e
          /\ target' = t
          /\ pc' = IF k.exited THEN "exited" ELSE "returned"
          /\ exit_code' = IF k.exited THEN Some(1) ELSE None
    /\ UNCHANGED <<loopVars, syscalls, bg>>

(***************************************************************************)
(* security/destruct.rs: Secure Deletion.                                  *)
(***************************************************************************)
\* what may fail in one overwrite pass: nothing, the seek, the write, the
\* flush, or the write and the flush
PassFaults == {"none", "seek", "write", "flush", "write_flush"}

\* what the operating system answers during one run of secure_delete_file
DeleteEnvs ==
    [metadata_ok : BOOLEAN, open_ok : BOOLEAN, pass : [1..3 -> PassFaults],
     remove_ok : BOOLEAN, file_size : FileSizes]

\* faulty variant: a pass whose write fails goes on to the next pass at once
random_pass_Continue(p, e) ==
    IF e.pass[p] = "seek" THEN <<Ev("seek", p, FALSE)>>
    ELSE IF e.pass[p] \in {"write", "write_flush"}
    THEN <<Ev("seek", p, TRUE), EvWrite(p, e.file_size, FALSE)>>
    ELSE <<Ev("seek", p, TRUE), EvWrite(p, e.file_size, TRUE),
           Ev("flush", p, e.pass[p] # "flush")>>

\* secure_delete_file: the body of the for loop, pass p; the argument of each
\* operation is the number of the pass, the data written are random
random_pass(p, e) ==
    IF e.pass[p] = "seek" THEN <<Ev("seek", p, FALSE)>>
    ELSE <<Ev("seek", p, TRUE),
           EvWrite(p, e.file_size, e.pass[p] \notin {"write", "write_flush"}),
           Ev("flush", p, e.pass[p] \notin {"flush", "write_flush"})>>

\* secure_delete_file: exists tells whether the path still exists on return
secure_delete_file(e) ==
    IF ~e.metadata_ok
    THEN [exists |-> TRUE, trace |-> <<Ev("metadata", 0, FALSE)>>]
    ELSE [exists |-> ~e.remove_ok,
          trace |-> <<Ev("metadata", 0, TRUE), Ev("open", 0, e.open_ok)>>
                    \o (IF e.open_ok
                        THEN random_pass(1, e) \o random_pass(2, e) \o random_pass(3, e)
                        ELSE <<>>)
                    \o <<Ev("remove_file", 0, e.remove_ok)>>]

\* one call of secure_delete_file on a path that exists
RunSecureDeleteFile ==
    /\ pc = "call"
    /\ \E e \in DeleteEnvs :
          LET d == secure_delete_file(e) IN
          /\ routine' = "secure_delete_file"
          /\ os' = e
          /\ syscalls' = d.trace
          /\ target' = [observed |-> TRUE, exists |-> d.exists]
    /\ pc' = "returned"
    /\ UNCHANGED <<loopVars, runtime_kill_method, killCalls, killLog, exit_code, bg>>


(***************************************************************************)
(* Process Control: stop_parent on its own, kill_base of                   *)
(* execution/async.rs and kill_process_tree of execution/async_mode.rs.    *)
(***************************************************************************)
\* kill_base: grace wait after a delivered SIGTERM, milliseconds
BaseGraceMs == 2000
\* kill_process_tree: grace wait after the SIGTERM to the group, milliseconds
TreeGraceMs == 1000

\* the answers stop_parent depends on
StopEnvs ==
    {e \in KillEnvs : e.ppid_ok /\ e.path_ok /\ e.io.op = "none" /\ e.file_size = 0}

\* one call of stop_parent
RunStopParent ==
    /\ pc = "call"
    /\ \E e \in StopEnvs, t \in Targets :
          /\ routine' = "stop_parent"
          /\ os' = e
          /\ target' = t
          /\ syscalls' = stop_parent(e).trace
    /\ pc' = "returned"
    /\ UNCHANGED <<loopVars, runtime_kill_method, killCalls, killLog, exit_code, bg>>

\* what the operating system answers during one run of kill_base
BaseEnvs == [platform : {"unix", "windows"}, term_ok : BOOLEAN, kill_ok : BOOLEAN]

\* faulty variant: SIGKILL at once, no graceful signal
kill_base_KillFirst(e) ==
    <<Ev(IF e.platform = "unix" THEN "SIGKILL" ELSE "TerminateProcess", 0, e.kill_ok),
      Ev("wait", 0, TRUE)>>

\* kill_base
kill_base(e) ==
    (IF e.platform = "unix"
     THEN <<Ev("SIGTERM", 0, e.term_ok)>>
          \o (IF e.term_ok THEN <<Ev("sleep", BaseGraceMs, TRUE)>> ELSE <<>>)
          \o <<Ev("SIGKILL", 0, e.kill_ok)>>
     ELSE <<Ev("TerminateProcess", 0, e.kill_ok)>>)
    \o <<Ev("wait", 0, TRUE)>>

\* one call of kill_base
RunKillBase ==
    /\ pc = "call"
    /\ \E e \in BaseEnvs, t \in Targets :
          /\ routine' = "kill_base"
          /\ os' = e
          /\ target' = t
          /\ syscalls' = kill_base(e)
    /\ pc' = "returned"
    /\ UNCHANGED <<loopVars, runtime_kill_method, killCalls, killLog, exit_code, bg>>

\* what the operating system answers during one run of kill_process_tree
TreeEnvs == [term_ok : BOOLEAN, kill_group_ok : BOOLEAN, kill_ok : BOOLEAN]

\* faulty variant: the forced signals are sent only to a target that still runs
kill_process_tree_Rechecks(e, t) ==
    <<Ev("SIGTERM_group", 0, e.term_ok), Ev("sleep", TreeGraceMs, TRUE),
      Ev("check_alive", 0, t.running_after_term)>>
    \o (IF t.running_after_term
        THEN <<Ev("SIGKILL_group", 0, e.kill_group_ok), Ev("SIGKILL", 0, e.kill_ok)>>
        ELSE <<>>)

\* kill_process_tree(pid): the signals to -pid go to the process group
kill_process_tree(e, t) ==
    <<Ev("SIGTERM_group", 0, e.term_ok), Ev("sleep", TreeGraceMs, TRUE),
      Ev("SIGKILL_group", 0, e.kill_group_ok), Ev("SIGKILL", 0, e.kill_ok)>>

\* one call of kill_process_tree
RunKillProcessTree ==
    /\ pc = "call"
    /\ \E e \in TreeEnvs, t \in Targets :
          /\ routine' = "kill_process_tree"
          /\ os' = e
          /\ target' = t
          /\ syscalls' = kill_process_tree(e, t)
    /\ pc' = "returned"
    /\ UNCHANGED <<loopVars, runtime_kill_method, killCalls, killLog, exit_code, bg>>


\* the values of grace_period, seconds
GracePeriods == {0, 1, 3600}

\* one call of verify_license: os keeps the arguments and what the network did
RunVerifyLicense ==
    /\ pc = "call"
    /\ \E reply \in Replies, g \in GracePeriods, first \in BOOLEAN :
          /\ os' = [reply |-> reply, grace_period |-> g, first_check |-> first]
          /\ result' = verify_license(reply, g)
    /\ routine' = "verify_license"
    /\ pc' = "returned"
    /\ UNCHANGED <<config, health_monitor, shm, first_check, runtime_check_interval,
                   runtime_kill_method, clock, calls, sleeps, iterLog, killCalls, killLog,
                   exit_code, target, syscalls, bg, twin>>

EngineNext ==
    \/ RunVerifyLicense
    \/ RunExecuteKill
    \/ RunSecureDeleteFile
    \/ RunStopParent
    \/ RunKillBase
    \/ RunKillProcessTree

EngineSpec == EngineInit /\ [][EngineNext]_vars

(***************************************************************************)
(* Properties of the Kill Engine.                                          *)
(***************************************************************************)
\* execute_kill has run
KillRan == routine = "execute_kill" /\ pc \in {"returned", "exited"}

\* the positions of killLog where the operation is one of names
At(names) == {i \in 1..Len(killLog) : killLog[i].op \in names}

\* the operations that change the target binary
MutationOps == {"write", "remove_file"}

\* the operations that terminate the target by force
ForcedOps == {"SIGKILL", "TerminateProcess"}

\* the target process still runs when the file operations begin
TargetRunning ==
    IF \E i \in At(ForcedOps) : killLog[i].ok
    THEN target.running_after_kill
    ELSE target.running_after_term

\* C13 (as claimed): execute_kill writes to or unlinks the target binary only
\* once the target process no longer runs, and when the liveness check finds
\* the target alive after the graceful signal, the forced signal precedes
\* every file mutation.
C13_NoMutationWhileAlive ==
    KillRan =>
        /\ At(MutationOps) # {} => ~TargetRunning
        /\ \A i \in At(MutationOps) :
              (\E j \in At({"check_alive"}) : killLog[j].ok)
                  => \E j \in At({"SIGKILL"}) : j < i

\* C15 (as claimed): when the target is already gone (its path cannot be
\* resolved, or the unlink finds no file), execute_kill returns to its caller
\* instead of ending the process with a nonzero code.
C15_GoneTargetIsNoOp ==
    (KillRan /\ \E i \in At({"get_parent_binary_path", "remove_file"}) : ~killLog[i].ok)
        => pc = "returned" /\ exit_code = None

\* C16 (as claimed): when stopping the target fails during Delete or Shred,
\* execute_kill goes on and attempts the unlink.
C16_StopFailureStillDeletes ==
    (/\ KillRan
     /\ runtime_kill_method \in {"Delete", "Shred"}
     /\ os.path_ok
     /\ \E i \in At({"OpenProcess", "TerminateProcess"}) : ~killLog[i].ok)
        => At({"remove_file"}) # {}

\* C17 (as claimed): when a seek, a write or a sync of an overwrite pass of
\* Shred fails, the unlink is still attempted.
C17_PassFailureStillUnlinks ==
    (/\ KillRan
     /\ runtime_kill_method = "Shred"
     /\ \E i \in At({"seek", "write", "sync_all"}) : ~killLog[i].ok)
        => At({"remove_file"}) # {}

\* the names of the operations of a trace, in order
OpNames(trace) == [i \in 1..Len(trace) |-> trace[i].op]

\* keeps the elements of q whose operation is, or is not, in names
RECURSIVE Filter(_, _, _)
Filter(q, names, keep) ==
    IF q = <<>> THEN <<>>
    ELSE (IF (q[1].op \in names) = keep THEN <<q[1]>> ELSE <<>>)
         \o Filter(Tail(q), names, keep)

\* the bytes written by the writes of FileWork at the positions in S
RECURSIVE Bytes(_, _)
Bytes(q, S) ==
    IF S = {} THEN 0
    ELSE LET i == CHOOSE j \in S : TRUE IN q[i].len + Bytes(q, S \ {i})

\* execute_kill met no failure: both lookups and every operation succeeded
NoFault == os.ppid_ok /\ os.path_ok /\ os.stop = "ok" /\ os.io.op = "none"

\* what execute_kill did after the two lookups, up to the settle delay (the
\* whole of it when there is no settle delay), and after the settle delay
SettleAt == At({"sleep"}) \cap {i \in 1..Len(killLog) : killLog[i].arg = 200}
Termination ==
    IF SettleAt = {} THEN SubSeq(killLog, 3, Len(killLog))
    ELSE SubSeq(killLog, 3, (CHOOSE i \in SettleAt : TRUE) - 1)
FileWork ==
    IF SettleAt = {} THEN <<>>
    ELSE SubSeq(killLog, (CHOOSE i \in SettleAt : TRUE) + 1, Len(killLog))

\* the write at position i of FileWork belongs to the pass whose seek is the
\* last one before it
PassOf(i) == Cardinality({j \in 1..(i - 1) : FileWork[j].op = "seek"})
SyncsBefore(i) == Cardinality({j \in 1..(i - 1) : FileWork[j].op = "sync_all"})
WritesOfPass(p) ==
    {i \in 1..Len(FileWork) : FileWork[i].op = "write" /\ PassOf(i) = p}
BytesOfPass(p) == Bytes(FileWork, WritesOfPass(p))

\* C14: execute_kill maps each method to its sequence of actions.  Stop
\* terminates the target and touches no file.  Delete terminates, waits the
\* settle delay of 200 ms and unlinks with no overwrite.  Shred terminates,
\* waits the settle delay, overwrites the whole file three times, with 0x00,
\* then 0xFF, then 0xAA, syncing after each pass, and unlinks after the third
\* pass.  When an operation fails the sequence stops there; no method ever does
\* a file operation that is not in its sequence.
C14_MethodSequences ==
    KillRan =>
        /\ Cardinality(SettleAt) <= 1
        /\ \A i \in 1..Len(Termination) :
              Termination[i].op \notin {"open", "metadata", "seek", "write", "sync_all",
                                        "remove_file"}
        /\ runtime_kill_method = "Stop" => FileWork = <<>> /\ SettleAt = {}
        /\ runtime_kill_method = "Delete" =>
              /\ OpNames(FileWork) \in {<<>>, <<"remove_file">>}
              /\ NoFault => FileWork = <<Ev("remove_file", 0, TRUE)>>
        /\ runtime_kill_method = "Shred" =>
              /\ \A i \in 1..Len(FileWork) :
                    /\ FileWork[i].op = "write" =>
                          /\ PassOf(i) \in 1..3
                          /\ FileWork[i].arg = <<0, 255, 170>>[PassOf(i)]
                          /\ SyncsBefore(i) = PassOf(i) - 1
                    /\ FileWork[i].op = "remove_file" =>
                          /\ i = Len(FileWork)
                          /\ SyncsBefore(i) = 3
                          /\ \A p \in 1..3 : BytesOfPass(p) = os.file_size
              /\ NoFault =>
                    /\ OpNames(Filter(FileWork, {"write"}, FALSE))
                          = <<"open", "metadata", "seek", "sync_all", "seek", "sync_all",
                              "seek", "sync_all", "remove_file">>
                    /\ \A p \in 1..3 : BytesOfPass(p) = os.file_size
                    /\ \A i \in 1..Len(FileWork) : FileWork[i].ok
        /\ NoFault =>
              /\ pc = "returned"
              /\ Len(Termination) > 0
              /\ Termination[1].op \in {"SIGTERM", "OpenProcess"}
              /\ OpNames(SubSeq(killLog, 1, 2)) = <<"get_parent_pid", "get_parent_binary_path">>

\* C14 witness: Shred of a file of more than one chunk on unix, the target was
\* found alive and killed, every operation succeeded
C14_Witness ==
    /\ KillRan
    /\ runtime_kill_method = "Shred"
    /\ NoFault
    /\ os.platform = "unix"
    /\ os.alive
    /\ os.file_size > 8192
    /\ Cardinality(WritesOfPass(3)) = 2
    /\ Last(killLog).op = "remove_file"

(***************************************************************************)
(* Properties of Secure Deletion.                                          *)
(***************************************************************************)
\* the positions of syscalls where the operation is one of names
Sys(names) == {i \in 1..Len(syscalls) : syscalls[i].op \in names}

\* secure_delete_file has run on a file whose metadata could be read
DeleteRan == routine = "secure_delete_file" /\ pc = "returned" /\ os.metadata_ok

\* pass p was run: its seek was attempted
PassRan(p) == \E i \in Sys({"seek"}) : syscalls[i].arg = p

\* the unlink was attempted exactly once, after everything else, and the path
\* is gone when it succeeded
UnlinkedOnce ==
    /\ Sys({"remove_file"}) = {Len(syscalls)}
    /\ Last(syscalls).ok => ~target.exists

\* C18 (as claimed): on an existing file secure_delete_file always runs all
\* three overwrite passes and then attempts the unlink exactly once.
C18_AlwaysThreePasses ==
    DeleteRan => (\A p \in 1..3 : PassRan(p)) /\ UnlinkedOnce

\* C18 (amended): on an existing file secure_delete_file attempts the unlink
\* exactly once, as its last operation, and the path no longer exists when the
\* unlink succeeded.  When the file could be opened for writing, all three
\* passes are run before the unlink whatever passes fail: a pass whose seek
\* succeeds attempts its write and its flush, a pass whose seek fails writes
\* nothing.  When the file could not be opened, no pass is run.
C18_PassesWhenOpened ==
    DeleteRan =>
        /\ UnlinkedOnce
        /\ os.open_ok =>
              /\ \A p \in 1..3 : PassRan(p)
              /\ [i \in 1..Len(Filter(syscalls, {"seek"}, TRUE)) |->
                     Filter(syscalls, {"seek"}, TRUE)[i].arg] = <<1, 2, 3>>
              /\ \A i \in Sys({"seek"}) :
                    IF syscalls[i].ok
                    THEN /\ syscalls[i + 1].op = "write"
                         /\ syscalls[i + 1].len = os.file_size
                         /\ syscalls[i + 2].op = "flush"
                    ELSE syscalls[i + 1].op \in {"seek", "remove_file"}
        /\ ~os.open_ok => Sys({"seek", "write", "flush"}) = {}

\* C18 witness: the seek of the first pass and the write of the second fail,
\* the third pass and the unlink succeed
C18_Witness ==
    /\ DeleteRan
    /\ os.open_ok
    /\ os.pass = <<"seek", "write", "none">>
    /\ Len(syscalls) = 10
    /\ Last(syscalls).op = "remove_file"
    /\ ~target.exists

(***************************************************************************)
(* Properties of Process Control.                                          *)
(***************************************************************************)
\* a termination routine has run
Terminated(name) == routine = name /\ pc = "returned"

\* the forced operation at position i of syscalls comes after a graceful
\* signal, a wait and a liveness check that found the target alive
Escalated(i) ==
    \E g, w, c \in 1..(i - 1) :
        /\ g < w /\ w < c
        /\ syscalls[g].op \in {"SIGTERM", "SIGTERM_group"}
        /\ syscalls[w].op = "sleep"
        /\ syscalls[c].op = "check_alive" /\ syscalls[c].ok

\* C19 (as claimed): stop_parent and kill_base send the graceful signal, wait,
\* check liveness again, and send the forced signal only to a target found
\* alive; a forced signal is never sent without the graceful signal and the
\* wait before it.
C19_TwoPhaseEscalation ==
    (Terminated("stop_parent") \/ Terminated("kill_base")) =>
        /\ \A i \in Sys(ForcedOps) : Escalated(i)
        /\ Sys({"SIGTERM"}) # {}

\* C19 (amended): on unix stop_parent sends SIGTERM, waits 100 ms, checks
\* liveness, and sends SIGKILL exactly when the check found the target alive.
\* On unix kill_base sends SIGTERM, waits 2 s only if that signal was
\* delivered, and then sends SIGKILL in every case, with no liveness check.
\* On windows both routines terminate the target by force at once.
C19_EscalationByRoutine ==
    /\ (Terminated("stop_parent") /\ os.platform = "unix") =>
          /\ SubSeq(syscalls, 1, 3)
                = <<Ev("SIGTERM", 0, TRUE), Ev("sleep", 100, TRUE),
                    Ev("check_alive", 0, os.alive)>>
          /\ OpNames(SubSeq(syscalls, 4, Len(syscalls)))
                = (IF os.alive THEN <<"SIGKILL">> ELSE <<>>)
    /\ (Terminated("kill_base") /\ os.platform = "unix") =>
          /\ syscalls[1].op = "SIGTERM"
          /\ OpNames(syscalls)
                = (IF syscalls[1].ok THEN <<"SIGTERM", "sleep", "SIGKILL", "wait">>
                   ELSE <<"SIGTERM", "SIGKILL", "wait">>)
          /\ \A i \in Sys({"sleep"}) : syscalls[i].arg = 2000
    /\ ((Terminated("stop_parent") \/ Terminated("kill_base")) /\ os.platform = "windows") =>
          /\ Sys({"SIGTERM", "sleep", "check_alive"}) = {}
          /\ \A i \in Sys({"TerminateProcess"}) : i <= 2

\* C19 witness: kill_base on unix, the SIGTERM could not be delivered and the
\* SIGKILL followed with no wait
C19_Witness ==
    /\ Terminated("kill_base")
    /\ os.platform = "unix"
    /\ ~os.term_ok
    /\ OpNames(syscalls) = <<"SIGTERM", "SIGKILL", "wait">>

\* C20 (as claimed): kill_process_tree sends the graceful signal to the group,
\* waits, checks liveness again, and sends the forced signals only to a target
\* that still runs.
C20_TreeEscalation ==
    Terminated("kill_process_tree") =>
        /\ syscalls[1].op = "SIGTERM_group"
        /\ \A i \in Sys({"SIGKILL_group", "SIGKILL"}) :
              Escalated(i) /\ target.running_after_term

\* C20 (amended): kill_process_tree sends SIGTERM to the process group, waits
\* 1 s, and then sends SIGKILL to the group and SIGKILL to the pid, in this
\* order and in every case: it makes no liveness check, and the outcome of no
\* signal changes what follows.
C20_TreeAlwaysForces ==
    Terminated("kill_process_tree") =>
        /\ OpNames(syscalls) = <<"SIGTERM_group", "sleep", "SIGKILL_group", "SIGKILL">>
        /\ syscalls[2].arg = 1000
        /\ syscalls[1].ok = os.term_ok
        /\ syscalls[3].ok = os.kill_group_ok
        /\ syscalls[4].ok = os.kill_ok

\* C20 witness: the group was gone after the graceful signal (the forced
\* signal to it failed) and both forced signals were still sent
C20_Witness ==
    /\ Terminated("kill_process_tree")
    /\ ~target.running_after_term
    /\ os.term_ok
    /\ ~os.kill_group_ok
    /\ Sys({"SIGKILL_group", "SIGKILL"}) = {3, 4}

(***************************************************************************)
(* main_simple.rs and execution/: the synchronous dispatcher execute_sync  *)
(* and the detached asynchronous dispatcher execute_async of               *)
(* async_mode.rs, with secure_delete_self of security/destruct.rs (unix).  *)
(***************************************************************************)
\* the Config the dispatchers read
DispatchConfigs ==
    [check_interval_ms : {0}, kill_method : KillMethod, self_destruct : BOOLEAN]

\* what the operating system answers during one run of secure_delete_self
SelfEnvs ==
    [exe_ok : BOOLEAN, metadata_ok : BOOLEAN, open_ok : BOOLEAN,
     pass : [1..3 -> {"none", "seek", "write", "flush"}],
     remove_ok : BOOLEAN, config_remove_ok : BOOLEAN, file_size : FileSizes]

\* secure_delete_self: the body of the for loop, pass p
self_pass(p, e) ==
    IF e.pass[p] = "seek" THEN <<Ev("seek", p, FALSE)>>
    ELSE IF e.pass[p] = "write"
    THEN <<Ev("seek", p, TRUE), EvWrite(p, e.file_size, FALSE)>>
    ELSE <<Ev("seek", p, TRUE), EvWrite(p, e.file_size, TRUE),
           Ev("flush", p, e.pass[p] # "flush")>>

\* faulty variant: the two removals are attempted even when the size of the
\* binary could not be read
secure_delete_self_RemovesAnyway(e) ==
    IF ~e.exe_ok THEN <<Ev("current_exe", 0, FALSE)>>
    ELSE IF ~e.metadata_ok
    THEN <<Ev("current_exe", 0, TRUE), Ev("metadata", 0, FALSE),
           Ev("remove_file", 0, e.remove_ok),
           Ev("remove_file_config", 0, e.config_remove_ok)>>
    ELSE <<Ev("current_exe", 0, TRUE), Ev("metadata", 0, TRUE), Ev("open", 0, e.open_ok)>>
         \o (IF e.open_ok THEN self_pass(1, e) \o self_pass(2, e) \o self_pass(3, e)
             ELSE <<>>)
         \o <<Ev("remove_file", 0, e.remove_ok),
              Ev("remove_file_config", 0, e.config_remove_ok)>>

\* secure_delete_self: what it does before its exit(1)
secure_delete_self(e) ==
    IF ~e.exe_ok THEN <<Ev("current_exe", 0, FALSE)>>
    ELSE IF ~e.metadata_ok THEN <<Ev("current_exe", 0, TRUE), Ev("metadata", 0, FALSE)>>
    ELSE <<Ev("current_exe", 0, TRUE), Ev("metadata", 0, TRUE), Ev("open", 0, e.open_ok)>>
         \o (IF e.open_ok THEN self_pass(1, e) \o self_pass(2, e) \o self_pass(3, e)
             ELSE <<>>)
         \o <<Ev("remove_file", 0, e.remove_ok),
              Ev("remove_file_config", 0, e.config_remove_ok)>>

\* main_simple.rs 35-42: the dispatch on config.execution_mode
DispatchInit ==
    /\ routine \in {"execute_sync", "execute_async"}
    /\ pc = IF routine = "execute_sync" THEN "sync_verify" ELSE "async_start"
    /\ config \in DispatchConfigs
    /\ health_monitor = FALSE
    /\ shm = ZeroStatus
    /\ first_check = TRUE
    /\ runtime_check_interval = config.check_interval_ms
    /\ runtime_kill_method = config.kill_method
    /\ result = NoResult
    /\ clock = 1
    /\ calls = <<>>
    /\ sleeps = <<>>
    /\ iterLog = <<>>
    /\ killCalls = <<>>
    /\ killLog = <<>>
    /\ exit_code = None
    /\ os = NoEnv
    /\ target = NoTarget
    /\ syscalls = <<>>
    /\ bg = "none"
    /\ twin = NoTwin

\* the variables no dispatcher touches
idleVars == <<config, health_monitor, shm, first_check, runtime_check_interval,
              runtime_kill_method, clock, sleeps, iterLog, killCalls, killLog, routine,
              twin>>

\* sync.rs 24-30: the call of verify_license
SyncVerify ==
    /\ pc = "sync_verify"
    /\ \E reply \in Replies :
          /\ result' = verify_license(reply, 0)
          /\ calls' = Append(calls, CallEntry(TRUE, result'))
    /\ pc' = "sync_match"
    /\ UNCHANGED <<idleVars, exit_code, os, target, syscalls, bg>>

\* sync.rs 31-35: authorized, exit(0)
SyncAuthorized ==
    /\ pc = "sync_match"
    /\ result.ok /\ result.response.authorized
    /\ result' = NoResult
    /\ exit_code' = Some(0)
    /\ pc' = "exited"
    /\ UNCHANGED <<idleVars, calls, os, target, syscalls, bg>>

\* faulty variant: self-destruction whatever the configuration says
SyncRefusedNext_AlwaysDestruct(self_destruct) == "self_destruct"

\* faulty variant: plain exit(1) whatever the configuration says
SyncRefusedNext_NeverDestruct(self_destruct) == "exited"

\* sync.rs 39-43, 48-52: self-destruct, or plain exit(1)
SyncRefusedNext(self_destruct) == IF self_destruct THEN "self_destruct" ELSE "exited"

\* the end of the two arms of execute_sync that refuse
SyncRefused ==
    /\ result' = NoResult
    /\ pc' = SyncRefusedNext(config.self_destruct)
    /\ exit_code' = IF pc' = "exited" THEN Some(1) ELSE None
    /\ UNCHANGED <<idleVars, calls, os, target, syscalls, bg>>

\* sync.rs 36-44: the server denied
SyncDenied ==
    /\ pc = "sync_match"
    /\ result.ok /\ ~result.response.authorized
    /\ SyncRefused

\* sync.rs 45-53: verify_license returned an error
SyncError ==
    /\ pc = "sync_match"
    /\ ~result.ok
    /\ SyncRefused

\* destruct.rs 14-76: secure_delete_self, which ends the process with exit(1)
SecureDeleteSelf ==
    /\ pc = "self_destruct"
    /\ \E e \in SelfEnvs :
          /\ os' = e
          /\ syscalls' = secure_delete_self(e)
    /\ exit_code' = Some(1)
    /\ pc' = "exited"
    /\ UNCHANGED <<idleVars, result, calls, target, bg>>

\* async_mode.rs 14-64: thread::spawn of the background thread
AsyncSpawn ==
    /\ pc = "async_start"
    /\ pc' = "async_exit"
    /\ bg' = "bg_sleep"
    /\ UNCHANGED <<idleVars, result, calls, exit_code, os, target, syscalls>>

\* async_mode.rs 66-68: exit(0) of the primary thread; it ends the process
\* and its background thread with it, wherever that thread is
AsyncExit ==
    /\ pc = "async_exit"
    /\ pc' = "exited"
    /\ exit_code' = Some(0)
    /\ UNCHANGED <<idleVars, result, calls, os, target, syscalls, bg>>

\* async_mode.rs 28: the background thread's sleep of 100 ms is over
BgWake ==
    /\ pc # "exited"
    /\ bg = "bg_sleep"
    /\ bg' = "bg_verify"
    /\ UNCHANGED <<idleVars, pc, result, calls, exit_code, os, target, syscalls>>

\* async_mode.rs 32-38: the call of verify_license
BgVerify ==
    /\ pc # "exited"
    /\ bg = "bg_verify"
    /\ \E reply \in Replies :
          /\ result' = verify_license(reply, 0)
          /\ calls' = Append(calls, CallEntry(TRUE, result'))
    /\ bg' = "bg_match"
    /\ UNCHANGED <<idleVars, pc, exit_code, os, target, syscalls>>

\* async_mode.rs 41-44: authorized, the thread returns
BgAuthorized ==
    /\ pc # "exited"
    /\ bg = "bg_match"
    /\ result.ok /\ result.response.authorized
    /\ result' = NoResult
    /\ bg' = "bg_done"
    /\ UNCHANGED <<idleVars, pc, calls, exit_code, os, target, syscalls>>

\* async_mode.rs 45-53: denied or error, the thread goes on to
\* kill_process_tree(parent_pid)
BgRefused ==
    /\ pc # "exited"
    /\ bg = "bg_match"
    /\ ~(result.ok /\ result.response.authorized)
    /\ result' = NoResult
    /\ \E e \in TreeEnvs, t \in Targets : os' = e /\ target' = t
    /\ bg' = "bg_kill"
    /\ UNCHANGED <<idleVars, pc, calls, exit_code, syscalls>>

\* faulty variant: Delete and Shred also unlink the loader's binary
failure_actions_ByMethod(kill_method, e, t) ==
    kill_process_tree(e, t)
    \o (IF kill_method = "Stop" THEN <<>> ELSE <<Ev("remove_file", 0, TRUE)>>)

\* async_mode.rs 54-64: what the thread does after a refusal:
\* kill_process_tree, then a match on kill_method whose arms only log
failure_actions(kill_method, e, t) == kill_process_tree(e, t)

\* async_mode.rs 54-64: the next operation of the thread after a refusal
BgKillStep ==
    /\ pc # "exited"
    /\ bg = "bg_kill"
    /\ Len(syscalls) < Len(failure_actions(config.kill_method, os, target))
    /\ syscalls' = Append(syscalls, failure_actions(config.kill_method, os, target)[Len(syscalls) + 1])
    /\ UNCHANGED <<idleVars, pc, result, calls, exit_code, os, target, bg>>

\* async_mode.rs 56-64: the match on kill_method only logs; the thread ends
BgDone ==
    /\ pc # "exited"
    /\ bg = "bg_kill"
    /\ Len(syscalls) = Len(failure_actions(config.kill_method, os, target))
    /\ bg' = "bg_done"
    /\ UNCHANGED <<idleVars, pc, result, calls, exit_code, os, target, syscalls>>

DispatchNext ==
    \/ SyncVerify
    \/ SyncAuthorized
    \/ SyncDenied
    \/ SyncError
    \/ SecureDeleteSelf
    \/ AsyncSpawn
    \/ AsyncExit
    \/ BgWake
    \/ BgVerify
    \/ BgAuthorized
    \/ BgRefused
    \/ BgKillStep
    \/ BgDone

DispatchSpec == DispatchInit /\ [][DispatchNext]_vars

\* the three entry points that can receive a denial: main's loop and the two
\* dispatchers
EntryInit == Init \/ DispatchInit

EntryNext == Next \/ DispatchNext

EntrySpec == EntryInit /\ [][EntryNext]_vars

(***************************************************************************)
(* Properties of the entry points.                                         *)
(***************************************************************************)
\* the last verification was a denial and the entry point has dealt with it
DenialHandled ==
    /\ calls # <<>>
    /\ Last(calls).outcome = "denied"
    /\ pc = "exited" \/ bg = "bg_done"

\* C12 (as claimed): in main's loop, in execute_sync and in execute_async, a
\* denial always leads to a kill action before the process is over.
C12_DenialAlwaysKills ==
    DenialHandled => killCalls # <<>> \/ syscalls # <<>>

\* C12 (amended): a denial always leads to execute_kill in main's loop, with
\* the runtime kill method.  In execute_sync it never leads to execute_kill:
\* it leads to secure_delete_self when self_destruct is set, and to a plain
\* exit(1) otherwise.  In execute_async it never leads to execute_kill either:
\* the background thread runs kill_process_tree on the loader whatever the
\* kill method, as far as the exit(0) of the primary thread lets it run.
C12_DenialByEntryPoint ==
    DenialHandled =>
        /\ routine = "main" =>
              /\ killCalls = <<runtime_kill_method>>
              /\ syscalls = <<>>
              /\ exit_code \in {Some(1)}
        /\ routine = "execute_sync" =>
              /\ killCalls = <<>>
              /\ exit_code = Some(1)
              /\ IF config.self_destruct
                 THEN syscalls # <<>> /\ syscalls[1].op = "current_exe"
                 ELSE syscalls = <<>>
        /\ routine = "execute_async" =>
              /\ killCalls = <<>>
              /\ exit_code \in {None, Some(0)}
              /\ \E n \in 0..4 :
                    OpNames(syscalls)
                        = SubSeq(<<"SIGTERM_group", "sleep", "SIGKILL_group", "SIGKILL">>, 1, n)
              /\ bg = "bg_done" => Len(syscalls) = 4
              /\ bg \in {"bg_match", "bg_kill", "bg_done"}

\* C12 witness: execute_sync was denied with self_destruct off and the process
\* exited with code 1 and no kill action
C12_Witness ==
    /\ DenialHandled
    /\ routine = "execute_sync"
    /\ ~config.self_destruct
    /\ exit_code = Some(1)
    /\ syscalls = <<>>
    /\ killCalls = <<>>

(***************************************************************************)
(* main.rs with HealthMonitor::new() returning None, run next to the loop  *)
(* on the same results of verify_license: every  if let Some(ref hm)       *)
(* block is skipped.                                                       *)
(***************************************************************************)
\* main.rs 57-59: the locals of the second loop, and what it has done so far
TwinStart(c) ==
    [first_check |-> TRUE,
     runtime_check_interval |-> c.check_interval_ms,
     runtime_kill_method |-> c.kill_method,
     calls |-> <<>>, sleeps |-> <<>>, killCalls |-> <<>>, exit_code |-> None]

\* how an arm of the second loop ends: exit(code), or first_check = false and
\* thread::sleep(ms)
TwinEnd(t, next, code, ms, outcome) ==
    IF next = "exited" THEN [t EXCEPT !.exit_code = Some(code)]
    ELSE [t EXCEPT !.first_check = NextFirstCheck(outcome),
                   !.sleeps = Append(t.sleeps, ms)]

\* main.rs 77-154 without a Health Channel: one call of verify_license that
\* returned r, and the arm of the match it takes
loop_without_channel(t, r) ==
    LET called == [t EXCEPT !.calls = Append(t.calls, CallEntry(t.first_check, r))] IN
    IF r.ok /\ r.response.authorized
    THEN LET interval == patch_check_interval(t.runtime_check_interval, r.response)
             patched == [called EXCEPT
                            !.runtime_check_interval = interval,
                            !.runtime_kill_method =
                                patch_kill_method(t.runtime_kill_method, r.response)]
         IN TwinEnd(patched, AuthorizedNext(interval), 0, interval, "authorized")
    ELSE IF r.ok
    THEN [called EXCEPT !.killCalls = Append(t.killCalls, t.runtime_kill_method),
                        !.exit_code = Some(1)]
    ELSE TwinEnd(called, ErrorNext(t.runtime_check_interval), 1,
                 t.runtime_check_interval, "error")

\* both loops start from the same Config; the Health Channel of the first,
\* when there is one, is never asked for a kill
PairInit ==
    /\ pc = "loop"
    /\ config \in Configs
    /\ health_monitor \in BOOLEAN
    /\ shm = ZeroStatus
    /\ first_check = TRUE
    /\ runtime_check_interval = config.check_interval_ms
    /\ runtime_kill_method = config.kill_method
    /\ result = NoResult
    /\ clock = 1
    /\ calls = <<>>
    /\ sleeps = <<>>
    /\ iterLog = <<>>
    /\ killCalls = <<>>
    /\ killLog = <<>>
    /\ exit_code = None
    /\ routine = "main"
    /\ os = NoEnv
    /\ target = NoTarget
    /\ syscalls = <<>>
    /\ bg = "none"
    /\ twin = TwinStart(config)

\* the second loop makes its call of verify_license, gets the result the
\* first loop is holding, and runs its arm
TwinIteration ==
    /\ pc = "match"
    /\ Len(twin.calls) < Len(calls)
    /\ twin.exit_code = None
    /\ twin' = loop_without_channel(twin, result)
    /\ UNCHANGED <<pc, config, health_monitor, shm, first_check, runtime_check_interval,
                   runtime_kill_method, result, clock, calls, sleeps, iterLog, killCalls,
                   killLog, exit_code, routine, os, target, syscalls, bg>>

\* the first loop runs its arm once the second loop has seen the result
PairArm ==
    /\ Len(twin.calls) = Len(calls)
    /\ \/ AuthorizedArm
       \/ DeniedArm
       \/ ErrorArm

PairNext ==
    \/ Heartbeat
    \/ NoHealthMonitor
    \/ KillCheck
    \/ Verify
    \/ TwinIteration
    \/ PairArm
    \/ WakeUp
    \/ KillOnDenial

PairSpec == PairInit /\ [][PairNext]_vars

\* both loops are between two iterations, or over
PairSynced == pc \in {"loop", "kill_check", "verify", "sleep", "exited"}

\* C21: with the Health Channel absent the main loop makes, on every sequence
\* of results of verify_license, the same calls of verify_license, the same
\* sleeps and the same calls of execute_kill, and ends with the same exit code,
\* as with a Health Channel whose parent_requests_kill is never set; the
\* branch of the kill request is never taken.
C21_AbsentEqualsInert ==
    /\ pc # "kill_requested"
    /\ Len(twin.calls) \in {Len(calls), Len(calls) - 1}
    /\ PairSynced =>
          /\ twin.calls = calls
          /\ twin.sleeps = sleeps
          /\ twin.killCalls = killCalls
          /\ twin.exit_code = exit_code
          /\ twin.first_check = first_check
          /\ twin.runtime_check_interval = runtime_check_interval
          /\ twin.runtime_kill_method = runtime_kill_method
    /\ pc = "kill_denied" =>
          /\ twin.calls = calls
          /\ twin.sleeps = sleeps
          /\ twin.killCalls = <<runtime_kill_method>>
          /\ twin.exit_code = Some(1)

\* C21 witness: with a Health Channel present, an error, an authorized
\* response and a denial; three updates were written and both loops ended in
\* the same kill
C21_Witness ==
    /\ health_monitor
    /\ pc = "exited"
    /\ Len(calls) = 3
    /\ calls[1].outcome = "error"
    /\ calls[2].outcome = "authorized"
    /\ calls[3].outcome = "denied"
    /\ shm.should_kill_base = 1
    /\ twin.calls = calls
    /\ Len(twin.sleeps) = 2
    /\ twin.exit_code = Some(1)

(***************************************************************************)
(* utils/health_monitor.rs: the operations of the Health Channel called in *)
(* any order on a record the supervisor created, with the supervisor       *)
(* setting parent_requests_kill at any moment.                             *)
(***************************************************************************)
\* the number of Health Channel operations of a run
MaxOps == 4

\* the records the agent may find: zeroed, or left by an earlier run
HealthInits ==
    {[ZeroStatus EXCEPT !.consecutive_failures = f, !.is_alive = a] :
        f \in {0, MaxI32 - 1}, a \in {0, 1}}

HealthInit ==
    /\ pc = "call"
    /\ config = DefaultConfig
    /\ health_monitor = TRUE
    /\ shm \in HealthInits
    /\ first_check = TRUE
    /\ runtime_check_interval = config.check_interval_ms
    /\ runtime_kill_method = config.kill_method
    /\ result = NoResult
    /\ clock = 1
    /\ calls = <<>>
    /\ sleeps = <<>>
    /\ iterLog = <<>>
    /\ killCalls = <<>>
    /\ killLog = <<>>
    /\ exit_code = None
    /\ routine = "health_monitor"
    /\ os = NoEnv
    /\ target = NoTarget
    /\ syscalls = <<>>
    /\ bg = "none"
    /\ twin = NoTwin

\* one operation of the Health Channel: the record before it and after it
HmEv(op, before, after) == [op |-> op, before |-> before, after |-> after]

\* the variables no operation of the Health Channel touches
hmVars == <<pc, config, health_monitor, first_check, runtime_check_interval,
            runtime_kill_method, result, calls, sleeps, iterLog, killCalls, killLog,
            exit_code, routine, os, target, bg, twin>>

\* a call of an operation that writes the record
HmWrite(op, after) ==
    /\ pc = "call"
    /\ Len(syscalls) < MaxOps
    /\ shm' = after
    /\ syscalls' = Append(syscalls, HmEv(op, shm, after))

\* update(success) at a time now; the clock does not go back
HmUpdate ==
    \E success \in BOOLEAN, now \in {clock, clock + 1} :
        /\ HmWrite(IF success THEN "update_true" ELSE "update_false",
                   update(shm, success, now))
        /\ clock' = now
        /\ UNCHANGED hmVars

\* update(false) in a build with overflow checks: consecutive_failures += 1
\* panics at i32::MAX, and the agent ends there
HmUpdatePanics ==
    /\ pc = "call"
    /\ Len(syscalls) < MaxOps
    /\ shm.consecutive_failures = MaxI32
    /\ pc' = "panicked"
    /\ UNCHANGED <<config, health_monitor, shm, first_check, runtime_check_interval,
                   runtime_kill_method, result, clock, calls, sleeps, iterLog, killCalls,
                   killLog, exit_code, routine, os, target, syscalls, bg, twin>>

HmHeartbeat ==
    /\ HmWrite("heartbeat", heartbeat(shm))
    /\ UNCHANGED <<hmVars, clock>>

HmRequestKillBase ==
    /\ HmWrite("request_kill_base", request_kill_base(shm))
    /\ UNCHANGED <<hmVars, clock>>

\* is_kill_requested only reads: the answer is kept in result
HmIsKillRequested ==
    /\ HmWrite("is_kill_requested", shm)
    /\ result' = [ok |-> is_kill_requested(shm), response |-> NoBody]
    /\ UNCHANGED <<pc, config, health_monitor, first_check, runtime_check_interval,
                   runtime_kill_method, clock, calls, sleeps, iterLog, killCalls, killLog,
                   exit_code, routine, os, target, bg, twin>>

HealthNext ==
    \/ HmUpdate
    \/ HmUpdatePanics
    \/ HmHeartbeat
    \/ HmRequestKillBase
    \/ HmIsKillRequested
    \/ SupervisorRequestsKill

HealthSpec == HealthInit /\ [][HealthNext]_vars

(***************************************************************************)
(* Properties of the Health Channel.                                       *)
(***************************************************************************)
\* the record the run started from
InitialStatus == IF syscalls = <<>> THEN shm ELSE syscalls[1].before

\* the positions of the calls of update(true)
Successes == Sys({"update_true"})

\* the calls of update(false) since the most recent update(true)
FailuresSince ==
    {i \in Sys({"update_false"}) : \A j \in Successes : j < i}

\* the number the counter has to show, as a set: empty when the number is
\* beyond the largest i32, which no value of the counter equals
FailureCount ==
    LET n == Cardinality(FailuresSince)
        base == IF Successes = {} THEN InitialStatus.consecutive_failures ELSE 0
    IN IF base > MaxI32 - n THEN {} ELSE {base + n}

\* C22 (as claimed): after any sequence of calls, consecutive_failures is the
\* number of update(false) calls since the most recent update(true), plus the
\* initial value when there was no update(true); last_success changes only in
\* update(true); is_alive is 1 after every update.
C22_FailuresAreCounted ==
    routine = "health_monitor" =>
        /\ shm.consecutive_failures \in FailureCount
        /\ \A i \in 1..Len(syscalls) :
              /\ syscalls[i].after.last_success # syscalls[i].before.last_success
                    => syscalls[i].op = "update_true"
              /\ syscalls[i].op \in {"update_true", "update_false"}
                    => syscalls[i].after.is_alive = 1

\* the fields of the record other than those in names are equal in a and b
SameBut(a, b, names) ==
    \A f \in DOMAIN a : f \notin names => a[f] = b[f]

\* C23: no operation of the agent changes parent_requests_kill; heartbeat
\* changes nothing but is_alive, request_kill_base nothing but
\* should_kill_base, is_kill_requested nothing at all, and update nothing but
\* consecutive_failures, last_success and is_alive.
C23_SingleWriterPerField ==
    routine = "health_monitor" =>
        \A i \in 1..Len(syscalls) :
            LET b == syscalls[i].before
                a == syscalls[i].after
            IN /\ a.parent_requests_kill = b.parent_requests_kill
               /\ syscalls[i].op = "heartbeat" => SameBut(a, b, {"is_alive"}) /\ a.is_alive = 1
               /\ syscalls[i].op = "request_kill_base" =>
                     SameBut(a, b, {"should_kill_base"}) /\ a.should_kill_base = 1
               /\ syscalls[i].op = "is_kill_requested" => a = b
               /\ syscalls[i].op \in {"update_true", "update_false"} =>
                     SameBut(a, b, {"consecutive_failures", "last_success", "is_alive"})

\* C23 witness: the supervisor set the flag between two operations; a
\* heartbeat, a request_kill_base and an update followed, the flag is still set
C23_Witness ==
    /\ routine = "health_monitor"
    /\ Len(syscalls) = 4
    /\ syscalls[1].op = "is_kill_requested"
    /\ syscalls[1].after.parent_requests_kill = 0
    /\ syscalls[2].op = "heartbeat"
    /\ syscalls[2].before.parent_requests_kill = 1
    /\ syscalls[3].op = "request_kill_base"
    /\ syscalls[4].op = "update_false"
    /\ shm.parent_requests_kill = 1

(***************************************************************************)
(* main.rs, interval mode with a Health Channel, a verifier that only      *)
(* returns network errors, and a supervisor that sets parent_requests_kill *)
(* once and never clears it.  Every call of verify_license and every sleep *)
(* returns: the steps of the agent are weakly fair.                        *)
(***************************************************************************)
LiveInit ==
    /\ Init
    /\ health_monitor
    /\ config.check_interval_ms # 0

\* verify_license returns a network error
VerifyError == Verify /\ ~result'.ok

\* the supervisor sets the flag while the agent still has a call of
\* verify_license left in the run
SupervisorRequestsKillInTime == Len(calls) < MaxChecks /\ SupervisorRequestsKill

\* the steps of the agent
AgentStep ==
    \/ Heartbeat
    \/ KillCheck
    \/ VerifyError
    \/ ErrorArm
    \/ WakeUp
    \/ KillOnRequest

LiveNext == SupervisorRequestsKillInTime \/ AgentStep

LiveSpec == LiveInit /\ [][LiveNext]_vars /\ WF_vars(AgentStep)

\* C24: once parent_requests_kill is set the agent gets to call the Kill
\* Engine on the kill-request path, and an iteration that begins with the flag
\* set goes from the heartbeat to the Kill Engine and the exit without calling
\* verify_license.
C24_RequestLeadsToKill ==
    /\ (shm.parent_requests_kill = 1) ~> (ExitedOnRequest /\ killCalls # <<>>)
    /\ [][(shm.parent_requests_kill = 1 /\ pc \in {"loop", "kill_check", "kill_requested"})
             => /\ calls' = calls
                /\ sleeps' = sleeps
                /\ pc' = CASE pc = "loop" -> "kill_check"
                           [] pc = "kill_check" -> "kill_requested"
                           [] pc = "kill_requested" -> "exited"]_vars

\* C24 witness: the flag was set after a network error was handled (the
\* failure is counted), and the next iteration called the Kill Engine
C24_Witness ==
    /\ health_monitor
    /\ config.check_interval_ms # 0
    /\ ExitedOnRequest
    /\ killCalls = <<runtime_kill_method>>
    /\ Len(calls) = 2
    /\ \A i \in 1..Len(calls) : calls[i].outcome = "error"
    /\ shm.consecutive_failures = 2
    /\ Len(sleeps) = 2

(***************************************************************************)
(* Properties of the dispatchers.                                          *)
(***************************************************************************)
\* execute_sync has ended the process
SyncExited == routine = "execute_sync" /\ pc = "exited"

\* C25: execute_sync verifies once; it exits 0 exactly when the verification
\* returned authorized, and then touches no file; after a denial and after an
\* error alike it calls secure_delete_self (which exits 1) when self_destruct
\* is set, and otherwise exits 1 without any file operation.
C25_SyncExitByVerdict ==
    SyncExited =>
        /\ Len(calls) = 1
        /\ exit_code \in {Some(0), Some(1)}
        /\ exit_code = Some(0) <=> calls[1].outcome = "authorized"
        /\ calls[1].outcome = "authorized" => syscalls = <<>>
        /\ calls[1].outcome \in {"denied", "error"} =>
              IF config.self_destruct
              THEN syscalls # <<>> /\ syscalls[1].op = "current_exe"
              ELSE syscalls = <<>>

\* C25 witness: a network error with self_destruct set: the binary was
\* overwritten three times and unlinked, exit code 1
C25_Witness ==
    /\ SyncExited
    /\ calls[1].outcome = "error"
    /\ config.self_destruct
    /\ Cardinality(Sys({"write"})) = 3
    /\ \E i \in Sys({"remove_file"}) : syscalls[i].ok
    /\ exit_code = Some(1)

\* the verification of execute_async ended in a denial or an error
AsyncRefused ==
    /\ routine = "execute_async"
    /\ calls # <<>>
    /\ Last(calls).outcome \in {"denied", "error"}

\* C26 (as claimed): in every interleaving with the primary thread, a
\* background verification that ended in a denial or an error has had the
\* loader's process tree killed by the time the process is over.
C26_RefusalKillsTree ==
    (AsyncRefused /\ pc = "exited") => Sys({"SIGKILL_group", "SIGKILL"}) # {}

(***************************************************************************)
(* execution/async.rs: execute_async starts the base binary as a child,    *)
(* verifies in a second thread and polls: the verification, the timeout,   *)
(* the child.  The base binary may exit on its own at any moment.          *)
(***************************************************************************)
\* the number of 100 ms sleeps of the polling loop in a run
MaxPolls == 2

\* verification_timeout, seconds
VerificationTimeoutS == 30

\* the sleep of the polling loop, milliseconds
PollMs == 100

\* the exit statuses of the base binary: a code, or none when a signal ended it
BaseStatuses == {Some(0), Some(2), None}

\* the base binary as a child of the controller
Base(state, status) == [observed |-> TRUE, state |-> state, status |-> status]

\* what secure_delete_self meets: every pass of a run fares the same
AttachedSelfEnvs ==
    {e \in SelfEnvs : e.pass[2] = e.pass[1] /\ e.pass[3] = e.pass[1] /\ e.file_size # 0}

\* async.rs 19-28: the state execute_async starts in; os says whether the
\* configuration holds a base_binary_path and whether spawn() succeeds
AttachedInit ==
    /\ routine = "async::execute_async"
    /\ pc = "spawn_base"
    /\ config \in {c \in DispatchConfigs : c.kill_method = DefaultConfig.kill_method}
    /\ health_monitor = FALSE
    /\ shm = ZeroStatus
    /\ first_check = TRUE
    /\ runtime_check_interval = config.check_interval_ms
    /\ runtime_kill_method = config.kill_method
    /\ result = NoResult
    /\ clock = 1
    /\ calls = <<>>
    /\ sleeps = <<>>
    /\ iterLog = <<>>
    /\ killCalls = <<>>
    /\ killLog = <<>>
    /\ exit_code = None
    /\ os \in [base_binary_path : BOOLEAN, spawn_ok : BOOLEAN]
    /\ target = NoTarget
    /\ syscalls = <<>>
    /\ bg = "none"
    /\ twin = NoTwin

\* the variables execute_async of async.rs never touches
attachedVars == <<config, health_monitor, shm, first_check, runtime_check_interval,
                  runtime_kill_method, iterLog, killCalls, killLog, routine, os, twin>>

\* a step of the controller: the next position, what it did, the exit code
\* when it ends the process
Controller(next, did, code) ==
    /\ pc' = next
    /\ syscalls' = syscalls \o did
    /\ exit_code' = IF next = "exited" THEN Some(code) ELSE exit_code

\* faulty variant: the controller goes on when spawn_base failed
SpawnBaseNext_GoesOn(ok) == "spawn_thread"

\* async.rs 31-37: the match on spawn_base
SpawnBaseNext(ok) == IF ok THEN "spawn_thread" ELSE "exited"

\* async.rs 22-39: base_binary_path, spawn_base
SpawnBase ==
    /\ pc = "spawn_base"
    /\ IF ~os.base_binary_path
       THEN Controller("exited", <<>>, 1)
       ELSE Controller(SpawnBaseNext(os.spawn_ok), <<Ev("spawn", 0, os.spawn_ok)>>, 1)
    /\ target' = IF os.base_binary_path /\ os.spawn_ok THEN Base("running", None) ELSE target
    /\ UNCHANGED <<attachedVars, result, clock, calls, sleeps, bg>>

\* async.rs 48-60: thread::spawn of the verification, Instant::now()
SpawnVerification ==
    /\ pc = "spawn_thread"
    /\ Controller("is_finished", <<Ev("thread_spawn", 0, TRUE)>>, 0)
    /\ bg' = "verifying"
    /\ UNCHANGED <<attachedVars, result, clock, calls, sleeps, target>>

\* async.rs 49-55: verify_license returns in the verification thread
VerificationReturns ==
    /\ routine = "async::execute_async"
    /\ pc # "exited"
    /\ bg = "verifying"
    /\ \E reply \in Replies :
          /\ result' = verify_license(reply, 0)
          /\ calls' = Append(calls, CallEntry(TRUE, result'))
    /\ bg' = "finished"
    /\ UNCHANGED <<attachedVars, pc, clock, sleeps, exit_code, target, syscalls>>

\* faulty variant: only a denial kills, an error waits for the base binary
JoinTarget_ErrorWaits(r) == IF r.ok /\ ~r.response.authorized THEN "kill_base" ELSE "wait"

\* async.rs 65-72: the arms of the match on join()
JoinTarget(r) == IF r.ok /\ r.response.authorized THEN "wait" ELSE "kill_base"

\* async.rs 64-83: is_finished and the match on join()
CheckFinished ==
    /\ pc = "is_finished"
    /\ IF bg # "finished"
       THEN Controller("timeout", <<>>, 0)
       ELSE Controller(JoinTarget(result),
                       <<Ev("join", 0, result.ok /\ result.response.authorized)>>, 0)
    /\ UNCHANGED <<attachedVars, result, clock, calls, sleeps, target, bg>>

\* async.rs 86-87: start.elapsed() > verification_timeout
CheckTimeout ==
    /\ pc = "timeout"
    /\ IF clock - 1 > VerificationTimeoutS
       THEN Controller("kill_base", <<Ev("elapsed", clock - 1, TRUE)>>, 0)
       ELSE Controller("try_wait", <<>>, 0)
    /\ UNCHANGED <<attachedVars, result, clock, calls, sleeps, target, bg>>

\* faulty variant: the controller reports success when the base binary ended
EarlyExitCode_Zero(status) == 0

\* async.rs 101: status.code().unwrap_or(1)
EarlyExitCode(status) == IF status = None THEN 1 ELSE Unwrap(status)

\* async.rs 98-111: try_wait on the base binary
TryWait ==
    /\ pc = "try_wait"
    /\ \/ /\ target.state = "exited"
          /\ Controller("exited", <<Ev("try_wait", 0, TRUE)>>, EarlyExitCode(target.status))
          /\ target' = Base("reaped", target.status)
          /\ UNCHANGED sleeps
       \/ /\ target.state = "running"
          /\ Len(sleeps) < MaxPolls
          /\ Controller("is_finished", <<>>, 0)
          /\ sleeps' = Append(sleeps, PollMs)
          /\ UNCHANGED target
       \/ /\ Controller("exited", <<Ev("try_wait", 0, FALSE)>>, 1)
          /\ UNCHANGED <<target, sleeps>>
    /\ UNCHANGED <<attachedVars, result, clock, calls, bg>>

\* async.rs 74-80, 88-94: kill_base, then secure_delete_self or exit(1)
KillBase ==
    /\ pc = "kill_base"
    /\ \E e \in BaseEnvs :
          Controller(IF config.self_destruct THEN "destruct_self" ELSE "exited",
                     kill_base(e), 1)
    /\ target' = Base("reaped", IF target.state = "running" THEN None ELSE target.status)
    /\ UNCHANGED <<attachedVars, result, clock, calls, sleeps, bg>>

\* async.rs 77, 91: secure_delete_self, which ends the process with exit(1)
SelfDestructAfterKill ==
    /\ routine = "async::execute_async"
    /\ pc = "destruct_self"
    /\ \E e \in AttachedSelfEnvs : Controller("exited", secure_delete_self(e), 1)
    /\ UNCHANGED <<attachedVars, result, clock, calls, sleeps, target, bg>>

\* async.rs 69-70: wait for the base binary and exit with its code; a wait
\* that fails panics, and the process ends with code 101
WaitBase ==
    /\ pc = "wait"
    /\ \/ /\ target.state = "exited"
          /\ Controller("exited", <<Ev("wait_base", 0, TRUE)>>,
                        IF target.status = None THEN 0 ELSE Unwrap(target.status))
          /\ target' = Base("reaped", target.status)
       \/ /\ Controller("exited", <<Ev("wait_base", 0, FALSE)>>, 101)
          /\ UNCHANGED target
    /\ UNCHANGED <<attachedVars, result, clock, calls, sleeps, bg>>

\* the base binary ends on its own; the history keeps the moment
BaseExits ==
    /\ routine = "async::execute_async"
    /\ pc # "exited"
    /\ target.observed
    /\ target.state = "running"
    /\ \E status \in BaseStatuses : target' = Base("exited", status)
    /\ syscalls' = Append(syscalls, Ev("base_exits", 0, TRUE))
    /\ UNCHANGED <<attachedVars, pc, result, clock, calls, sleeps, exit_code, bg>>

\* time passes, up to twice the timeout
TimePasses ==
    /\ routine = "async::execute_async"
    /\ pc \notin {"spawn_base", "spawn_thread", "exited"}
    /\ clock - 1 <= VerificationTimeoutS
    /\ clock' = clock + VerificationTimeoutS
    /\ UNCHANGED <<attachedVars, pc, result, calls, sleeps, exit_code, target, syscalls, bg>>

AttachedNext ==
    \/ SpawnBase
    \/ SpawnVerification
    \/ VerificationReturns
    \/ CheckFinished
    \/ CheckTimeout
    \/ TryWait
    \/ KillBase
    \/ SelfDestructAfterKill
    \/ WaitBase
    \/ BaseExits
    \/ TimePasses

AttachedSpec == AttachedInit /\ [][AttachedNext]_vars

(***************************************************************************)
(* Properties of execute_async of async.rs.                                *)
(***************************************************************************)
\* execute_async of async.rs has ended the process
AttachedExited == routine = "async::execute_async" /\ pc = "exited"

\* the signals of kill_base
BaseSignals == Sys({"SIGTERM", "SIGKILL", "TerminateProcess"})

\* what made the controller give up: a join() that was not authorized, the
\* timeout
Refusals == {i \in Sys({"join"}) : ~syscalls[i].ok} \cup Sys({"elapsed"})

LaunchInit == DispatchInit \/ AttachedInit

LaunchNext == DispatchNext \/ AttachedNext

LaunchSpec == LaunchInit /\ [][LaunchNext]_vars

\* the base binary has been started: by spawn_base in async.rs; in
\* async_mode.rs by the loader, which goes on to the base binary when the
\* controller has exited with 0
BaseStarted ==
    IF routine = "async::execute_async"
    THEN \E i \in Sys({"spawn"}) : syscalls[i].ok
    ELSE pc = "exited" /\ exit_code = Some(0)

\* a verification thread has been spawned
ThreadSpawned == bg # "none"

\* the asynchronous strategies
AsyncRoutines == {"async::execute_async", "execute_async"}

\* C28 (as claimed): in every asynchronous launch strategy the base binary has
\* started when the verification thread is spawned.
C28_StartPrecedesThread ==
    (routine \in AsyncRoutines /\ ThreadSpawned) => BaseStarted

\* C28 (amended): in execute_async of async.rs the base binary is spawned
\* before the verification thread, and when base_binary_path is missing or
\* spawn fails the controller exits with 1 and no thread is ever spawned, no
\* verification made.  In execute_async of async_mode.rs the order is the
\* other way round: the thread is spawned first, and the loader can start the
\* base binary only after the exit(0) that follows.
C28_StartOrderByStrategy ==
    /\ routine = "async::execute_async" =>
          /\ ThreadSpawned =>
                /\ target.observed
                /\ \A j \in Sys({"thread_spawn"}) :
                      \E i \in Sys({"spawn"}) : i < j /\ syscalls[i].ok
          /\ (~os.base_binary_path \/ ~os.spawn_ok) =>
                /\ ~ThreadSpawned
                /\ calls = <<>>
                /\ ~target.observed
                /\ pc \in {"spawn_base", "exited"}
                /\ pc = "exited" => exit_code = Some(1)
    /\ routine = "execute_async" =>
          /\ BaseStarted => ThreadSpawned
          /\ pc \in {"async_start", "exited"} \/ (ThreadSpawned /\ ~BaseStarted)

\* C28 witness: async.rs, the base binary runs, the thread was spawned after
\* it and the verification has returned
C28_Witness ==
    /\ routine = "async::execute_async"
    /\ target.observed
    /\ target.state = "running"
    /\ OpNames(syscalls) = <<"spawn", "thread_spawn">>
    /\ bg = "finished"

(***************************************************************************)
(* Properties of verify_license.                                           *)
(***************************************************************************)
\* verify_license has returned from a request that failed in transport
TransportFailed ==
    /\ routine = "verify_license"
    /\ pc = "returned"
    /\ ~os.reply.transport_ok

\* C29 (as claimed): for every value of the arguments a transport failure
\* gives an error result.
C29_TransportFailureIsError ==
    TransportFailed => ~result.ok

\* C29 (amended): a transport failure gives an error result when grace_period
\* is 0, whatever first_check is; when grace_period is positive it gives an
\* authorized outcome without overrides.
C29_TransportFailureByGrace ==
    TransportFailed =>
        IF os.grace_period = 0
        THEN result = Err
        ELSE result = Ok([authorized |-> TRUE, check_interval_ms |-> None,
                          kill_method |-> None])

\* C29 witness: a transport failure with grace_period 0 on a call that is not
\* the first check
C29_Witness ==
    /\ TransportFailed
    /\ os.grace_period = 0
    /\ ~os.first_check
    /\ ~result.ok

(***************************************************************************)
(* main.rs against a server that gives the same reply to every request,    *)
(* with no kill request from the supervisor.                               *)
(***************************************************************************)
ReplyInit ==
    /\ pc = "loop"
    /\ config \in Configs
    /\ health_monitor \in BOOLEAN
    /\ shm = ZeroStatus
    /\ first_check = TRUE
    /\ runtime_check_interval = config.check_interval_ms
    /\ runtime_kill_method = config.kill_method
    /\ result = NoResult
    /\ clock = 1
    /\ calls = <<>>
    /\ sleeps = <<>>
    /\ iterLog = <<>>
    /\ killCalls = <<>>
    /\ killLog = <<>>
    /\ exit_code = None
    /\ routine = "main"
    /\ os \in [reply : Replies, grace_period : {0}, first_check : {TRUE}]
    /\ target = NoTarget
    /\ syscalls = <<>>
    /\ bg = "none"
    /\ twin = NoTwin

\* the call of verify_license gets the server's reply
VerifyGiven == Verify /\ result' = verify_license(os.reply, 0)

ReplyNext ==
    \/ Heartbeat
    \/ NoHealthMonitor
    \/ KillCheck
    \/ VerifyGiven
    \/ AuthorizedArm
    \/ DeniedArm
    \/ ErrorArm
    \/ WakeUp
    \/ KillOnDenial

ReplySpec == ReplyInit /\ [][ReplyNext]_vars

\* the server answers with a status other than 200
BadStatus == os.reply.transport_ok /\ os.reply.status # 200

\* the server answers 200 with a body that does not parse
MalformedBody == os.reply.transport_ok /\ os.reply.status = 200 /\ ~os.reply.parse_ok

\* C30: a status other than 200 gives Ok with authorized = false and no
\* override, never an error, and main takes the denial arm: execute_kill with
\* the runtime kill method, exit.  A 200 with a malformed body gives an error,
\* and main takes the error arm: no execute_kill, exit(1) in single-shot mode,
\* sleep and retry in interval mode.
C30_StatusDeniesBodyErrors ==
    (routine = "main" /\ os # NoEnv /\ calls # <<>>) =>
        /\ BadStatus =>
              /\ pc = "match" =>
                    result = Ok([authorized |-> FALSE, check_interval_ms |-> None,
                                 kill_method |-> None])
              /\ Len(calls) = 1
              /\ calls[1].outcome = "denied"
              /\ pc \in {"match", "kill_denied", "exited"}
              /\ pc = "exited" =>
                    /\ killCalls = <<config.kill_method>>
                    /\ Has(iterLog, "execute_kill")
              /\ sleeps = <<>>
        /\ MalformedBody =>
              /\ pc = "match" => result = Err
              /\ \A i \in 1..Len(calls) : calls[i].outcome = "error"
              /\ killCalls = <<>>
              /\ pc # "kill_denied"
              /\ pc = "exited" => exit_code = Some(1) /\ config.check_interval_ms = 0
              /\ config.check_interval_ms # 0 => pc # "exited"

\* C30 witness: in interval mode a 500 was answered to the first request and
\* main has called execute_kill and exited
C30_Witness ==
    /\ routine = "main"
    /\ os # NoEnv
    /\ BadStatus
    /\ config.check_interval_ms # 0
    /\ pc = "exited"
    /\ killCalls = <<config.kill_method>>
    /\ Len(calls) = 1

(***************************************************************************)
(* Properties of the runtime overrides, against the server's one reply.    *)
(***************************************************************************)
\* the server's reply is an authorized response
AuthorizedReply ==
    /\ routine = "main"
    /\ os # NoEnv
    /\ os.reply.transport_ok
    /\ os.reply.status = 200
    /\ os.reply.parse_ok
    /\ os.reply.body.authorized

\* the arm of the match has dealt with the first reply
FirstReplyHandled == Len(calls) > 1 \/ (Len(calls) = 1 /\ pc # "match")

\* the reply carries a kill_method string that from_str does not know
UnknownKillMethod ==
    /\ os.reply.body.kill_method # None
    /\ from_str(Unwrap(os.reply.body.kill_method)) = None

\* C34: after an authorized response the runtime interval is the one the
\* response carries, if it carries one, whatever its kill_method field is; the
\* runtime kill method is the one the response names, if from_str knows the
\* name, whatever its check_interval_ms field is; an unknown name leaves the
\* runtime kill method as it was.
C34_OverridesAreIndependent ==
    (AuthorizedReply /\ FirstReplyHandled) =>
        /\ runtime_check_interval =
              IF os.reply.body.check_interval_ms = None THEN config.check_interval_ms
              ELSE Unwrap(os.reply.body.check_interval_ms)
        /\ runtime_kill_method =
              IF os.reply.body.kill_method = None \/ UnknownKillMethod
              THEN config.kill_method
              ELSE Unwrap(from_str(Unwrap(os.reply.body.kill_method)))

\* C34 witness: the response said "wipe" and 5000 ms to an agent configured
\* with Delete and 1000 ms: the agent sleeps 5000 ms and keeps Delete
C34_Witness ==
    /\ AuthorizedReply
    /\ UnknownKillMethod
    /\ os.reply.body.check_interval_ms = Some(5000)
    /\ config = [check_interval_ms |-> 1000, kill_method |-> "Delete"]
    /\ pc = "sleep"
    /\ sleeps = <<5000>>
    /\ runtime_kill_method = "Delete"

\* C35: an authorized response that carries check_interval_ms = 0 ends the
\* loop in the iteration that received it, with exit code 0 and no sleep, in
\* interval mode too; an authorized response that carries a positive
\* check_interval_ms to an agent configured with 0 does not end the loop: the
\* agent sleeps that long and verifies again.
C35_IntervalOverrideSwitchesMode ==
    (AuthorizedReply /\ FirstReplyHandled) =>
        /\ os.reply.body.check_interval_ms = Some(0) =>
              /\ pc = "exited"
              /\ exit_code = Some(0)
              /\ sleeps = <<>>
              /\ Len(calls) = 1
              /\ killCalls = <<>>
        /\ (config.check_interval_ms = 0 /\ os.reply.body.check_interval_ms \notin {None, Some(0)}) =>
              /\ pc # "exited"
              /\ exit_code = None
              /\ sleeps # <<>>
              /\ \A i \in 1..Len(sleeps) : sleeps[i] = Unwrap(os.reply.body.check_interval_ms)
              /\ calls[1].first_check
              /\ \A i \in 2..Len(calls) : ~calls[i].first_check

\* C35 witness: configured with 0, the agent got 1000 ms from the server, has
\* slept and is verifying a second time
C35_Witness ==
    /\ AuthorizedReply
    /\ config.check_interval_ms = 0
    /\ os.reply.body.check_interval_ms = Some(1000)
    /\ Len(calls) = 2
    /\ sleeps = <<1000>>
    /\ pc = "match"

(***************************************************************************)
(* Properties of execute_kill: the signal it starts with.                  *)
(***************************************************************************)
\* execute_kill ran and get_parent_pid gave it a PID
KillRanWithPid == KillRan /\ os.ppid_ok

\* the operations on the parent's binary
FileOps == {"open", "metadata", "seek", "write", "sync_all", "remove_file"}

\* C36 (as claimed): whenever execute_kill has the parent PID it sends the
\* graceful termination signal, for every kill method and also when the
\* binary path is not resolved, where no file is touched and the exit code
\* is 1.
C36_AlwaysGracefulSignal ==
    KillRanWithPid =>
        /\ At({"SIGTERM"}) # {}
        /\ ~os.path_ok => At(FileOps) = {} /\ exit_code = Some(1)

\* C36 (amended): on unix, whenever execute_kill has the parent PID, SIGTERM
\* is the first thing done to the parent, before any forced signal and any
\* file operation, for every kill method and also when the binary path is not
\* resolved.  On windows there is no graceful signal: stop_parent calls
\* TerminateProcess, and nothing at all when OpenProcess fails.  On both, an
\* unresolved binary path means stop_parent only: no file operation, exit
\* code 1.
C36_GracefulSignalOnUnix ==
    KillRanWithPid =>
        /\ os.platform = "unix" =>
              /\ Cardinality(At({"SIGTERM"})) = 1
              /\ \A i \in At({"SIGTERM"}), j \in At(ForcedOps \cup FileOps) : i < j
        /\ os.platform = "windows" =>
              /\ At({"SIGTERM"}) = {}
              /\ At({"TerminateProcess"}) # {} <=> os.stop # "open_failed"
        /\ ~os.path_ok =>
              /\ At(FileOps) = {}
              /\ At({"SIGTERM", "OpenProcess"}) # {}
              /\ pc = "exited"
              /\ exit_code = Some(1)

\* C36 witness: unix, Shred, the binary path is not resolved: SIGTERM was
\* sent, no file was touched, exit code 1
C36_Witness ==
    /\ KillRanWithPid
    /\ os.platform = "unix"
    /\ ~os.path_ok
    /\ runtime_kill_method = "Shred"
    /\ At({"SIGTERM"}) # {}
    /\ At(FileOps) = {}
    /\ exit_code = Some(1)

(***************************************************************************)
(* Properties of the flags the agent writes in main's loop.                *)
(***************************************************************************)
\* the denial arm of the match is running
InDenialArm == pc = "match" /\ result.ok /\ ~result.response.authorized

\* C37: in main's loop should_kill_base changes only in the denial arm and
\* only to 1 (not in the error arm, not on a kill request of the parent, not
\* in the authorized arm), so it is never cleared; is_alive changes only to 1.
C37_KillBaseOnlyOnDenial ==
    [][routine = "main" =>
          /\ shm'.should_kill_base # shm.should_kill_base =>
                InDenialArm /\ shm'.should_kill_base = 1
          /\ shm'.is_alive # shm.is_alive => shm'.is_alive = 1]_vars

\* C37 witness: a network error, then a denial, then the kill while the
\* parent's kill request is pending: should_kill_base is set and is_alive is 1
C37_Witness ==
    /\ routine = "main"
    /\ Len(calls) = 2
    /\ calls[1].outcome = "error"
    /\ calls[2].outcome = "denied"
    /\ shm.should_kill_base = 1
    /\ shm.is_alive = 1
    /\ shm.parent_requests_kill = 1
    /\ shm.consecutive_failures = 2
    /\ pc = "exited"

(***************************************************************************)
(* Properties of execute_async of async.rs: the base binary ends first.    *)
(***************************************************************************)
\* what the controller has seen of the verification: a join(), the timeout
Observations == Sys({"join", "elapsed"})

\* the base binary ended on its own before the controller had seen anything
\* of the verification
EndedUnobserved ==
    \E b \in Sys({"base_exits"}) : \A j \in Observations : b < j

\* C38 (as claimed): when the base binary exits on its own before the
\* verification result has been observed, and the timeout is never seen, the
\* controller leaves through try_wait: no kill_base, no self-destruct.
C38_EarlyExitNeverActs ==
    (AttachedExited /\ EndedUnobserved /\ Sys({"elapsed"}) = {}) =>
        /\ BaseSignals = {}
        /\ Sys({"current_exe"}) = {}

\* C38 (amended): when try_wait is what sees the base binary's exit, the
\* controller exits with the base binary's code, 1 when a signal ended it,
\* without join(), kill_base or secure_delete_self, whatever the verification
\* returned or will return.  When the base binary has exited on its own but
\* the next poll of is_finished or of the timeout comes before try_wait, the
\* controller acts on what that poll sees, as if the base binary still ran.
C38_EarlyExitSeenByTryWait ==
    (AttachedExited /\ syscalls # <<>>) =>
        /\ (Last(syscalls).op = "try_wait" /\ Last(syscalls).ok) =>
              /\ Sys({"base_exits"}) # {}
              /\ Observations = {}
              /\ BaseSignals = {}
              /\ Sys({"wait", "wait_base", "current_exe"}) = {}
              /\ exit_code = Some(IF target.status = None THEN 1 ELSE Unwrap(target.status))
              /\ target.state = "reaped"
        /\ EndedUnobserved =>
              \/ Last(syscalls).op = "try_wait"
              \/ \E b \in Sys({"base_exits"}), j \in Observations :
                    /\ b < j
                    /\ IF syscalls[j].op = "join" /\ syscalls[j].ok
                       THEN Last(syscalls).op = "wait_base"
                       ELSE Sys({"wait"}) # {}

\* C38 witness: the base binary exited with code 2, the verification then
\* returned a denial nobody looked at, and the controller exited with 2
C38_Witness ==
    /\ AttachedExited
    /\ syscalls # <<>>
    /\ Last(syscalls).op = "try_wait"
    /\ Last(syscalls).ok
    /\ bg = "finished"
    /\ Last(calls).outcome = "denied"
    /\ exit_code = Some(2)
    /\ config.self_destruct

(***************************************************************************)
(* Properties of execute_async of async_mode.rs: the kill method.          *)
(***************************************************************************)
\* the signals of kill_process_tree, in order
TreeKill == <<"SIGTERM_group", "sleep", "SIGKILL_group", "SIGKILL">>

\* C39: in execute_async of async_mode.rs, for Stop, Delete and Shred alike,
\* what is done after a refusal is kill_process_tree on the loader, as far as
\* the thread gets, and nothing else: execute_kill is not called and no file
\* is opened, overwritten or unlinked.  Without a refusal nothing is done.
C39_KillMethodChangesNothing ==
    routine = "execute_async" =>
        /\ killCalls = <<>>
        /\ killLog = <<>>
        /\ Len(syscalls) <= Len(TreeKill)
        /\ OpNames(syscalls) = SubSeq(TreeKill, 1, Len(syscalls))
        /\ syscalls # <<>> => AsyncRefused
        /\ (bg = "bg_done" /\ AsyncRefused) => Len(syscalls) = Len(TreeKill)

\* C39 witness: kill method Shred, a denial, and the thread finished before
\* the primary thread's exit: the four steps of kill_process_tree, no more
C39_Witness ==
    /\ routine = "execute_async"
    /\ config.kill_method = "Shred"
    /\ AsyncRefused
    /\ Last(calls).outcome = "denied"
    /\ bg = "bg_done"
    /\ pc = "async_exit"
    /\ OpNames(syscalls) = TreeKill


(***************************************************************************)
(* The two secure-deletion routines of security/destruct.rs (unix), each   *)
(* called once on a path that exists, under every answer of the operating  *)
(* system.                                                                 *)
(***************************************************************************)

\* destruct.rs 14-76: one call of secure_delete_self, which never returns: each
\* of its three ways out is exit(1)
RunSecureDeleteSelf ==
    /\ pc = "call"
    /\ \E e \in SelfEnvs :
          /\ routine' = "secure_delete_self"
          /\ os' = e
          /\ syscalls' = secure_delete_self(e)
    /\ exit_code' = Some(1)
    /\ pc' = "exited"
    /\ UNCHANGED <<loopVars, runtime_kill_method, killCalls, killLog, target, bg>>

DeleteNext ==
    \/ RunSecureDeleteFile
    \/ RunSecureDeleteSelf

DeleteSpec == EngineInit /\ [][DeleteNext]_vars

\* the operations of a deletion run that change a file
Mutations == {"open", "seek", "write", "flush", "remove_file", "remove_file_config"}

\* the size of the file could not be read
SizeUnread ==
    \E i \in Sys({"metadata"}) : ~syscalls[i].ok

\* the run ends with the removal of the binary and then of the .config file
RemovesBoth ==
    /\ Len(syscalls) >= 2
    /\ syscalls[Len(syscalls) - 1].op = "remove_file"
    /\ Last(syscalls).op = "remove_file_config"
    /\ Cardinality(Sys({"remove_file", "remove_file_config"})) = 2

\* what the two routines do when the size cannot be read, and that
\* secure_delete_self always ends the process with code 1
SizeUnreadMutatesNothing ==
    /\ (routine = "secure_delete_file" /\ SizeUnread) =>
            /\ Sys(Mutations) = {}
            /\ target.exists
            /\ pc = "returned"
            /\ exit_code = None
    /\ (routine = "secure_delete_self" /\ SizeUnread) => Sys(Mutations) = {}
    /\ routine = "secure_delete_self" => (pc = "exited" /\ exit_code = Some(1))

\* C40 as claimed: when the size of the file cannot be read neither routine
\* overwrites or unlinks anything, and on every other path secure_delete_self
\* removes the binary and then the .config file and exits with code 1.
C40_EveryOtherPathRemoves ==
    /\ SizeUnreadMutatesNothing
    /\ (routine = "secure_delete_self" /\ ~SizeUnread) => RemovesBoth

\* C40: when the size of the file cannot be read neither routine overwrites or
\* unlinks anything; secure_delete_self always exits with code 1 and, when the
\* path of the binary was found and its size read, attempts to remove the
\* binary and then the .config file, whether or not the first removal
\* succeeded; when the path of the binary cannot be found it touches nothing.
C40_RemovalAfterSizeRead ==
    /\ SizeUnreadMutatesNothing
    /\ (routine = "secure_delete_self" /\ ~SizeUnread) =>
            IF os.exe_ok THEN RemovesBoth
            ELSE syscalls = <<Ev("current_exe", 0, FALSE)>>

C40_Witness ==
    /\ routine = "secure_delete_self"
    /\ pc = "exited"
    /\ exit_code = Some(1)
    /\ os.exe_ok /\ ~os.metadata_ok
    /\ SizeUnread
    /\ syscalls = <<Ev("current_exe", 0, TRUE), Ev("metadata", 0, FALSE)>>


(***************************************************************************)
(* verification/hmac.rs: create_signature and verify_signature.  Strings   *)
(* are sequences of bytes.  SHA-256 is idealised as free of collisions:    *)
(* the 32 bytes of the code are determined by the 64-byte key block and    *)
(* the message, and differ whenever one of the two differs.                *)
(***************************************************************************)

MaxStr == 2

\* the bytes of the strings: NUL, 'a', 'b'
ByteVals == {0, 97, 98}

Strs == UNION {[1..n -> ByteVals] : n \in 0..MaxStr}

\* the block size of SHA-256 and the size of its digest, in bytes
BlockSize == 64
DigestSize == 32

HexDigits ==
    <<"0", "1", "2", "3", "4", "5", "6", "7", "8", "9", "a", "b", "c", "d", "e", "f">>

\* hmac.rs 19: hex::encode, two lowercase digits for each byte
hex_encode(bytes) ==
    [i \in 1..(2 * Len(bytes)) |->
        LET b == bytes[(i + 1) \div 2] IN
        IF i % 2 = 1 THEN HexDigits[(b \div 16) + 1] ELSE HexDigits[(b % 16) + 1]]

\* hmac.rs 16: HmacSha256::new_from_slice, the key block of a key of at most
\* BlockSize bytes is the key followed by zero bytes (a longer key, beyond
\* the strings drawn here, is hashed first)
new_from_slice(secret) ==
    [i \in 1..BlockSize |-> IF i <= Len(secret) THEN secret[i] ELSE 0]

\* hmac.rs 18-19: update(data) and finalize(), the code of the message under
\* the key block; collision-free for keys and messages shorter than half a
\* digest: the head of the key block, the length of the message, the message
finalize(key_block, data) ==
    LET half == DigestSize \div 2 IN
    [i \in 1..DigestSize |->
        IF i <= half THEN key_block[i]
        ELSE IF i = half + 1 THEN Len(data)
        ELSE IF i - half - 1 <= Len(data) THEN data[i - half - 1]
        ELSE 0]

\* hmac.rs 15-20
create_signature(data, secret) ==
    hex_encode(finalize(new_from_slice(secret), data))

\* hmac.rs 36: ct_eq of subtle on byte slices, false at once for slices of
\* different lengths, otherwise true when every pair of bytes is equal
ct_eq(a, b) ==
    /\ Len(a) = Len(b)
    /\ \A i \in 1..Len(a) : a[i] = b[i]

\* faulty variant: the comparison stops at the end of the shorter string
verify_signature_ToShorter(data, secret, signature) ==
    LET expected == create_signature(data, secret) IN
    \A i \in 1..Len(expected) : i <= Len(signature) => expected[i] = signature[i]

\* hmac.rs 31-37
verify_signature(data, secret, signature) ==
    LET expected == create_signature(data, secret) IN
    ct_eq(expected, signature)

\* the digits a tampered signature may carry in place of one of its own
TamperDigits == {"0", "1", "a", "A"}

\* the signatures that differ from sig in one byte or in length
Tamperings(sig) ==
    {[sig EXCEPT ![i] = c] : <<i, c>> \in
        {x \in (1..Len(sig)) \X TamperDigits : sig[x[1]] # x[2]}}
    \cup {Append(sig, "0"), SubSeq(sig, 1, Len(sig) - 1), <<>>}

\* verify_signature on a signature made by create_signature, with the same
\* message and secret or with one of the two changed
VerifySigned ==
    /\ pc = "call"
    /\ \E data \in Strs, secret \in Strs :
       \E signer \in {<<data, s>> : s \in Strs} \cup {<<d, secret>> : d \in Strs} :
          LET signature == create_signature(signer[1], signer[2]) IN
          /\ os' = [data |-> data, secret |-> secret, how |-> "signed",
                    signer_data |-> signer[1], signer_secret |-> signer[2],
                    signature |-> signature]
          /\ target' = [observed |-> TRUE,
                        valid |-> verify_signature(data, secret, signature)]
    /\ routine' = "verify_signature"
    /\ pc' = "returned"
    /\ UNCHANGED <<loopVars, runtime_kill_method, killCalls, killLog, exit_code,
                   syscalls, bg>>

\* verify_signature on the expected signature with one byte or the length
\* changed
VerifyTampered ==
    /\ pc = "call"
    /\ \E data \in Strs, secret \in Strs :
       \E signature \in Tamperings(create_signature(data, secret)) :
          /\ os' = [data |-> data, secret |-> secret, how |-> "tampered",
                    signer_data |-> data, signer_secret |-> secret,
                    signature |-> signature]
          /\ target' = [observed |-> TRUE,
                        valid |-> verify_signature(data, secret, signature)]
    /\ routine' = "verify_signature"
    /\ pc' = "returned"
    /\ UNCHANGED <<loopVars, runtime_kill_method, killCalls, killLog, exit_code,
                   syscalls, bg>>

SignNext ==
    \/ VerifySigned
    \/ VerifyTampered

SignSpec == EngineInit /\ [][SignNext]_vars

\* a signature made by create_signature was presented
Signed == routine = "verify_signature" /\ os.how = "signed"

\* the round trip, the other message and the tampered signature
RoundTripAndTampering ==
    /\ (Signed /\ os.signer_data = os.data /\ os.signer_secret = os.secret) =>
            target.valid
    /\ (Signed /\ os.signer_data # os.data) => ~target.valid
    /\ (routine = "verify_signature" /\ os.how = "tampered") => ~target.valid

\* C32 as claimed: verify_signature accepts the signature create_signature
\* makes for the same message and secret, and rejects a signature made with
\* a different secret, one made for a different message, and one that
\* differs from the expected signature in one byte or in length.
C32_DifferentSecretRejected ==
    /\ RoundTripAndTampering
    /\ (Signed /\ os.signer_secret # os.secret) => ~target.valid

\* C32: verify_signature accepts the signature create_signature makes for the
\* same message and secret, rejects one made for a different message and one
\* that differs from the expected signature in one byte or in length, and
\* rejects one made with a different secret exactly when the two secrets have
\* different key blocks: secrets that differ only in trailing NUL bytes sign
\* alike.
C32_DifferentKeyBlockRejected ==
    /\ RoundTripAndTampering
    /\ (Signed /\ os.signer_data = os.data) =>
            (target.valid <=>
                new_from_slice(os.signer_secret) = new_from_slice(os.secret))

C32_Witness ==
    /\ Signed
    /\ os.signer_data = os.data
    /\ os.secret = <<97>>
    /\ os.signer_secret = <<97, 0>>
    /\ Len(os.signature) = 2 * DigestSize
    /\ target.valid


(***************************************************************************)
(* verification/network.rs 64-70: the address the request is sent to, made *)
(* from the server_url of the configuration.  Strings are sequences of     *)
(* characters.                                                             *)
(***************************************************************************)

MaxParts == 4

\* network.rs 66, 69: the path of the verification API
ApiPath == <<"/", "a", "p", "i", "/", "v", "1", "/", "v", "e", "r", "i", "f", "y">>

\* the pieces a server_url is made of
Pieces == {<<"h">>, <<"/">>, <<"/", "v", "1">>, ApiPath}

RECURSIVE UrlsOf(_)
UrlsOf(n) ==
    IF n = 0 THEN {<<>>}
    ELSE LET shorter == UrlsOf(n - 1) IN
         shorter \cup {u \o p : u \in shorter, p \in Pieces}

\* the values of server_url: at most MaxParts pieces
Urls == UrlsOf(MaxParts)

\* str::ends_with
ends_with(s, suffix) ==
    /\ Len(s) >= Len(suffix)
    /\ SubSeq(s, Len(s) - Len(suffix) + 1, Len(s)) = suffix

\* network.rs 65: str::trim_end_matches('/'), every trailing '/' is removed
RECURSIVE trim_end_matches(_)
trim_end_matches(s) ==
    IF s # <<>> /\ Last(s) = "/"
    THEN trim_end_matches(SubSeq(s, 1, Len(s) - 1))
    ELSE s

\* faulty variant: the path is appended whatever the address ends with
url_AlwaysAppends(server_url) ==
    trim_end_matches(server_url) \o ApiPath

\* network.rs 65-70
url(server_url) ==
    LET clean_url == trim_end_matches(server_url) IN
    IF ends_with(clean_url, ApiPath) THEN clean_url ELSE clean_url \o ApiPath

\* network.rs 65-70 on one value of server_url
BuildUrl ==
    /\ pc = "call"
    /\ \E server_url \in Urls :
          /\ os' = [server_url |-> server_url]
          /\ target' = [observed |-> TRUE, url |-> url(server_url)]
    /\ routine' = "url"
    /\ pc' = "built"
    /\ UNCHANGED <<loopVars, runtime_kill_method, killCalls, killLog, exit_code,
                   syscalls, bg>>

\* network.rs 65-70 on the address it made, as when that address is written
\* back as server_url
BuildAgain ==
    /\ pc = "built"
    /\ routine = "url"
    /\ target' = [observed |-> TRUE, url |-> url(target.url), first |-> target.url]
    /\ pc' = "rebuilt"
    /\ UNCHANGED <<loopVars, runtime_kill_method, killCalls, killLog, exit_code,
                   routine, os, syscalls, bg>>

UrlNext ==
    \/ BuildUrl
    \/ BuildAgain

UrlSpec == EngineInit /\ [][UrlNext]_vars

\* the address ends with the path, and building from it gives it back
EndsWithPathAndStable ==
    routine = "url" =>
        /\ ends_with(target.url, ApiPath)
        /\ pc = "rebuilt" => target.url = target.first

\* the string ends with the path twice over
PathTwice(s) == ends_with(s, ApiPath \o ApiPath)

\* C31 as claimed: for every server_url the address ends with exactly one
\* occurrence of the path, and building the address from the address gives
\* the same address.
C31_NeverTwice ==
    /\ EndsWithPathAndStable
    /\ routine = "url" => ~PathTwice(target.url)

\* C31: for every server_url the address ends with the path, the path is
\* appended only when server_url without its trailing slashes does not end
\* with it already (so the address ends with the path twice only when
\* server_url did), and building the address from the address gives the same
\* address.
C31_AppendedOnlyWhenMissing ==
    /\ EndsWithPathAndStable
    /\ routine = "url" =>
          LET clean_url == trim_end_matches(os.server_url) IN
          /\ PathTwice(target.url) <=> PathTwice(clean_url)
          /\ target.url = IF ends_with(clean_url, ApiPath) THEN clean_url
                          ELSE clean_url \o ApiPath

C31_Witness ==
    /\ routine = "url"
    /\ pc = "rebuilt"
    /\ os.server_url = <<"h">> \o ApiPath \o <<"/", "/">>
    /\ target.url = <<"h">> \o ApiPath
    /\ target.first = target.url


(***************************************************************************)
(* The loading of the configuration at the start of main (main.rs 26-47,   *)
(* main_simple.rs 21-32), up to the first verification.                    *)
(***************************************************************************)

\* OVERLOAD_NO_DESTRUCT in the environment: absent, a Unicode string (the
\* empty one included), or a value that is not valid Unicode
EnvValues == {"unset", "unicode", "not_unicode"}

\* main.rs 39, main_simple.rs 26: std::env::var(..).is_err(), var gives
\* Err(NotPresent) for an absent variable and Err(NotUnicode) for a value
\* that is not valid Unicode
var_is_err(value) == value \in {"unset", "not_unicode"}

\* what a run meets: the two entry points, the outcome of the two loaders,
\* the variable, and the answers secure_delete_self gets
LoadEnvs ==
    [embedded_ok : BOOLEAN, config_ok : BOOLEAN, no_destruct : EnvValues,
     self : AttachedSelfEnvs]

LoadInit ==
    /\ routine \in {"main", "main_simple"}
    /\ pc = IF routine = "main" THEN "load_embedded" ELSE "load_config"
    /\ os \in LoadEnvs
    /\ config = DefaultConfig
    /\ health_monitor = FALSE
    /\ shm = ZeroStatus
    /\ first_check = TRUE
    /\ runtime_check_interval = config.check_interval_ms
    /\ runtime_kill_method = config.kill_method
    /\ result = NoResult
    /\ clock = 1
    /\ calls = <<>>
    /\ sleeps = <<>>
    /\ iterLog = <<>>
    /\ killCalls = <<>>
    /\ killLog = <<>>
    /\ exit_code = None
    /\ target = NoTarget
    /\ syscalls = <<>>
    /\ bg = "none"
    /\ twin = NoTwin

\* main.rs 27-34: load_embedded_config, and on Err the fall back to the
\* .config file
LoadEmbeddedConfig ==
    /\ pc = "load_embedded"
    /\ syscalls' = Append(syscalls, Ev("load_embedded_config", 0, os.embedded_ok))
    /\ pc' = IF os.embedded_ok THEN "config_loaded" ELSE "load_config"
    /\ UNCHANGED <<loopVars, runtime_kill_method, killCalls, killLog, exit_code,
                   routine, os, target, bg>>

\* main.rs 35-37, main_simple.rs 22-24: load_config
LoadConfig ==
    /\ pc = "load_config"
    /\ syscalls' = Append(syscalls, Ev("load_config", 0, os.config_ok))
    /\ pc' = IF os.config_ok THEN "config_loaded" ELSE "load_failed"
    /\ UNCHANGED <<loopVars, runtime_kill_method, killCalls, killLog, exit_code,
                   routine, os, target, bg>>

\* main.rs 37-45, main_simple.rs 24-31: the Err arm of load_config,
\* secure_delete_self (which exits 1) or exit(1)
LoadFailed ==
    /\ pc = "load_failed"
    /\ syscalls' = syscalls \o
          (IF var_is_err(os.no_destruct) THEN secure_delete_self(os.self) ELSE <<>>)
    /\ exit_code' = Some(1)
    /\ pc' = "exited"
    /\ UNCHANGED <<loopVars, runtime_kill_method, killCalls, killLog, routine, os,
                   target, bg>>

\* main.rs 61 onwards, main_simple.rs 35-42: with a configuration the agent
\* goes on to its first verification
FirstVerify ==
    /\ pc = "config_loaded"
    /\ syscalls' = Append(syscalls, Ev("verify_license", 0, TRUE))
    /\ pc' = "verified"
    /\ UNCHANGED <<loopVars, runtime_kill_method, killCalls, killLog, exit_code,
                   routine, os, target, bg>>

LoadNext ==
    \/ LoadEmbeddedConfig
    \/ LoadConfig
    \/ LoadFailed
    \/ FirstVerify

LoadSpec == LoadInit /\ [][LoadNext]_vars

\* the loading of the configuration failed
LoadingFailed ==
    /\ routine \in {"main", "main_simple"}
    /\ \E i \in Sys({"load_config"}) : ~syscalls[i].ok

\* secure_delete_self was called
SelfDestructCalled == Sys({"current_exe"}) # {}

\* C33: when the loading of the configuration fails no verification is made;
\* the agent exits with code 1 without touching a file when
\* OVERLOAD_NO_DESTRUCT is set and calls secure_delete_self otherwise; in
\* main.rs, which has both loaders, the .config file is read only after the
\* embedded license failed to load.
C33_SetVariableSparesFiles ==
    /\ LoadingFailed => Sys({"verify_license"}) = {}
    /\ (LoadingFailed /\ pc = "exited") =>
            /\ exit_code = Some(1)
            /\ IF os.no_destruct = "unset" THEN SelfDestructCalled
               ELSE ~SelfDestructCalled /\ Sys(Mutations) = {}
    /\ routine = "main" =>
          \A i \in Sys({"load_config"}) :
             \E j \in Sys({"load_embedded_config"}) : j < i /\ ~syscalls[j].ok

=============================================================================
